---------------------------- MODULE Spec2Model ----------------------------
(***************************************************************************)
(* Model of the prompt library: PromptService (the in-memory store,        *)
(* services/PromptService.ts) over FileStorage (storage/FileStorage.ts).   *)
(*                                                                         *)
(* Conventions.                                                            *)
(*   - A JavaScript string is the sequence of its characters, each a       *)
(*     one-character TLA+ string: "ab" is <<"a", "b">>.                    *)
(*   - An optional property is a sequence of length 0 (absent/undefined)   *)
(*     or 1 (present): None and Some(v).                                   *)
(*   - A Record<string, Prompt> is the sequence of its entries             *)
(*     [key, value] in property order (insertion order for the             *)
(*     non-integer keys used here).                                        *)
(*   - An ISO timestamp is the number of clock ticks it denotes (the       *)
(*     fixed-width ISO format is injective and order-preserving).          *)
(***************************************************************************)
EXTENDS Integers, Sequences, FiniteSets, TLC

(***************************************************************************)
(* Bounds of the model.                                                    *)
(***************************************************************************)
\* calls of randomUUID() in one run
MaxCreates == 1
\* service calls in one run of the CRUD specification
MaxSteps == 3
\* readings of the wall clock are drawn from 1..MaxTime
MaxTime == 1
\* queries in one run of the query specification
MaxQueries == 1
\* calls in one run on a file system whose calls can fail
MaxFaultySteps == 1
\* requests the controller answers in one run behind the routes
MaxRequests == 2
\* save() calls in one run of saves in a row
SaveRuns == 12

(***************************************************************************)
(* Optional values and JavaScript strings.                                 *)
(***************************************************************************)
None == <<>>
Some(v) == <<v>>
IsSome(o) == Len(o) = 1
Val(o) == o[1]

Range(s) == { s[i] : i \in 1..Len(s) }

\* String.prototype.toLowerCase on one character of the model's alphabet
LowerChar(c) ==
    CASE c = "A" -> "a"
      [] c = "B" -> "b"
      [] c = "C" -> "c"
      [] OTHER -> c

toLowerCase(s) == [i \in 1..Len(s) |-> LowerChar(s[i])]

\* String.prototype.includes: q occurs in s as a contiguous substring
includes(s, q) ==
    \E i \in 0..(Len(s) - Len(q)) :
        \A j \in 1..Len(q) : s[i + j] = q[j]

\* [...new Set(xs)]: insertion-ordered set, first occurrence kept
RECURSIVE SetSpreadAcc(_, _, _)
SetSpreadAcc(xs, i, acc) ==
    IF i > Len(xs) THEN acc
    ELSE IF xs[i] \in Range(acc) THEN SetSpreadAcc(xs, i + 1, acc)
    ELSE SetSpreadAcc(xs, i + 1, Append(acc, xs[i]))

\* a plausible slip: the last occurrence of each value is kept
RECURSIVE SetSpreadLastAcc(_, _, _)
SetSpreadLastAcc(xs, i, acc) ==
    IF i < 1 THEN acc
    ELSE IF xs[i] \in Range(acc) THEN SetSpreadLastAcc(xs, i - 1, acc)
    ELSE SetSpreadLastAcc(xs, i - 1, <<xs[i]>> \o acc)

SetSpreadKeepLast(xs) == SetSpreadLastAcc(xs, Len(xs), <<>>)

SetSpread(xs) == SetSpreadAcc(xs, 1, <<>>)

(***************************************************************************)
(* incrementVersion: split('.'), parseInt(.., 10), template literal.       *)
(***************************************************************************)
Digits == <<"0", "1", "2", "3", "4", "5", "6", "7", "8", "9">>

IsDigit(c) == c \in Range(Digits)

DigitVal(c) == CHOOSE d \in 0..9 : Digits[d + 1] = c

\* String.prototype.split('.')
RECURSIVE SplitAcc(_, _, _, _)
SplitAcc(s, i, cur, acc) ==
    IF i > Len(s) THEN Append(acc, cur)
    ELSE IF s[i] = "." THEN SplitAcc(s, i + 1, <<>>, Append(acc, cur))
    ELSE SplitAcc(s, i + 1, Append(cur, s[i]), acc)

split(s) == SplitAcc(s, 1, <<>>, <<>>)

\* parseInt(s, 10) for unsigned input without leading white space: the value
\* of the longest prefix of digits, NaN when that prefix is empty
RECURSIVE ParseDigits(_, _, _)
ParseDigits(s, i, acc) ==
    IF i > Len(s) \/ ~IsDigit(s[i]) THEN acc
    ELSE ParseDigits(s, i + 1, 10 * acc + DigitVal(s[i]))

parseInt(s) ==
    IF Len(s) = 0 \/ ~IsDigit(s[1]) THEN [nan |-> TRUE, val |-> 0]
    ELSE [nan |-> FALSE, val |-> ParseDigits(s, 1, 0)]

\* String(n) of a non-negative integer
RECURSIVE Decimal(_)
Decimal(n) ==
    IF n < 10 THEN <<Digits[n + 1]>>
    ELSE Decimal(n \div 10) \o <<Digits[(n % 10) + 1]>>

UndefinedText == <<"u", "n", "d", "e", "f", "i", "n", "e", "d">>
NaNText == <<"N", "a", "N">>

\* a plausible slip: the minor component is bumped and the patch reset
incrementMinorVersion(version) ==
    LET parts == split(version)
        minor == parseInt(IF Len(parts) >= 2 THEN parts[2] ELSE <<"0">>)
    IN parts[1] \o <<".">> \o Decimal(minor.val + 1) \o <<".", "0">>

incrementVersion(version) ==
    LET parts == split(version)
        third == IF Len(parts) >= 3 /\ Len(parts[3]) > 0 THEN parts[3] ELSE <<"0">>
        parsed == parseInt(third)
        patch == IF parsed.nan THEN NaNText ELSE Decimal(parsed.val + 1)
        second == IF Len(parts) >= 2 THEN parts[2] ELSE UndefinedText
    IN parts[1] \o <<".">> \o second \o <<".">> \o patch


(***************************************************************************)
(* Prompt, PromptMetadata and the mapping Record<string, Prompt>.          *)
(***************************************************************************)
Metadata(createdAt, updatedAt, version, author, usage) ==
    [createdAt |-> createdAt, updatedAt |-> updatedAt, version |-> version,
     author |-> author, usage |-> usage]

Prompt(id, title, content, description, tags, category, variables, metadata) ==
    [id |-> id, title |-> title, content |-> content, description |-> description,
     tags |-> tags, category |-> category, variables |-> variables,
     metadata |-> metadata]

\* the value standing for "no prompt" (null) where a record is expected
NoPrompt ==
    Prompt("", <<>>, <<>>, None, <<>>, <<>>, None, Metadata(0, 0, <<>>, None, None))

Entry(key, value) == [key |-> key, value |-> value]

Keys(m) == { m[i].key : i \in 1..Len(m) }

\* this.prompts[id] is truthy
Has(m, id) == id \in Keys(m)

IndexOf(m, id) == CHOOSE i \in 1..Len(m) : m[i].key = id

\* this.prompts[id]
Lookup(m, id) == m[IndexOf(m, id)].value

\* names every object inherits from Object.prototype: this.prompts[id] is
\* truthy for them (a function, or the prototype) though the mapping has no
\* such key
InheritedNames == {"constructor", "__proto__", "toString"}

\* the TypeError of reading a property of undefined
TypeError(property) ==
    [name |-> "TypeError",
     message |-> <<"Cannot read properties of undefined (reading '", property, "')">>]

\* the value is an Error, not a prompt
IsError(v) == "name" \in DOMAIN v

\* this.prompts[id] = value: an existing property keeps its place, a new one
\* is added last
Put(m, id, value) ==
    IF Has(m, id) THEN [m EXCEPT ![IndexOf(m, id)].value = value]
    ELSE Append(m, Entry(id, value))

\* delete this.prompts[id]
Remove(m, id) ==
    IF Has(m, id)
    THEN LET k == IndexOf(m, id)
         IN SubSeq(m, 1, k - 1) \o SubSeq(m, k + 1, Len(m))
    ELSE m

\* Object.values(this.prompts)
Values(m) == [i \in 1..Len(m) |-> m[i].value]

(***************************************************************************)
(* FileStorage.  The data file is absent, or holds a document: text that   *)
(* YAML.parse rejects, or a parsed tree.  A tree's root is a mapping, a    *)
(* scalar or empty (null).  A value of the root mapping carries, for each  *)
(* property isValidPrompt inspects, the typeof it has ("array" for an      *)
(* array, "null" for null, "undefined" when missing).                      *)
(***************************************************************************)
GoodTypes ==
    [id |-> "string", title |-> "string", content |-> "string", tags |-> "array",
     category |-> "string", metadata |-> "object"]

YamlValue(isObject, types, data) ==
    [isObject |-> isObject, types |-> types, data |-> data]

Document(parses, root, entries) ==
    [exists |-> TRUE, parses |-> parses, root |-> root, entries |-> entries]

NoFile == [exists |-> FALSE, parses |-> FALSE, root |-> "null", entries |-> <<>>]

\* YAML.stringify(prompts, ...): one entry per property, in property order
YAMLstringify(m) ==
    Document(TRUE, "map",
             [i \in 1..Len(m) |->
                 Entry(m[i].key, YamlValue(TRUE, GoodTypes, m[i].value))])

\* a plausible slip: typeof null is 'object', and the test for null is missing
isValidPromptNullMetadata(value) ==
    /\ value.isObject
    /\ value.types.id = "string"
    /\ value.types.title = "string"
    /\ value.types.content = "string"
    /\ value.types.tags = "array"
    /\ value.types.category = "string"
    /\ value.types.metadata \in {"object", "array", "null"}

\* (typeof gives 'object' for an array as well)
isValidPrompt(value) ==
    /\ value.isObject
    /\ value.types.id = "string"
    /\ value.types.title = "string"
    /\ value.types.content = "string"
    /\ value.types.tags = "array"
    /\ value.types.category = "string"
    /\ value.types.metadata \in {"object", "array"}

RECURSIVE ValidEntries(_, _, _)
ValidEntries(entries, i, result) ==
    IF i > Len(entries) THEN result
    ELSE IF isValidPrompt(entries[i].value)
         THEN ValidEntries(entries, i + 1,
                           Put(result, entries[i].key, entries[i].value.data))
         ELSE ValidEntries(entries, i + 1, result)

\* a plausible slip: the record is stored under its id, not under its key
RECURSIVE ValidEntriesById(_, _, _)
ValidEntriesById(entries, i, result) ==
    IF i > Len(entries) THEN result
    ELSE IF isValidPrompt(entries[i].value)
         THEN ValidEntriesById(entries, i + 1,
                               Put(result, entries[i].value.data.id,
                                   entries[i].value.data))
         ELSE ValidEntriesById(entries, i + 1, result)

validateAndTransformDataById(doc) ==
    IF doc.root \notin {"map", "seq"} THEN <<>>
    ELSE ValidEntriesById(doc.entries, 1, <<>>)

\* YAML.parse(yamlContent) || {} followed by validateAndTransformData: a root
\* that is a mapping or a sequence (whose entries have their indices as
\* keys) is an object, an empty document or a scalar gives {}
validateAndTransformData(doc) ==
    IF doc.root \notin {"map", "seq"} THEN <<>>
    ELSE ValidEntries(doc.entries, 1, <<>>)

\* the backup directory is a set of files, each with the time stamp its name
\* is made of (prompts-backup-<ISO time>.yaml) and its content
\* (matches: the name starts with "prompts-backup-" and ends with ".yaml";
\* the names of such files are compared as their time stamps are)
BackupFile(stamp, content) == [name |-> stamp, content |-> content, matches |-> TRUE]

\* a file of another name that somebody put into the backup directory
OtherFile(name, content) == [name |-> name, content |-> content, matches |-> FALSE]

\* what the file system does to the calls of one save() or backup():
\*   readdir - fs.readdir throws,
\*   unlink  - the unlink call of that number throws (0: none does),
\*   copy    - fs.copyFile throws,
\*   write   - fs.writeFile succeeds ("none"), throws before the file is
\*             opened ("open"), or throws after the file was opened for
\*             writing and so truncated ("write")
Fault(readdir, unlink, copy, write) ==
    [readdir |-> readdir, unlink |-> unlink, copy |-> copy, write |-> write]

NoFault == Fault(FALSE, 0, FALSE, "none")

\* the Error backup() throws and the Error save() throws, the message in
\* parts: prefix and cause (the call that failed)
BackupError(cause) ==
    [name |-> "Error", message |-> <<"Failed to create backup: ">> \o cause]

SaveError(cause) ==
    [name |-> "Error", message |-> <<"Failed to save prompts: ">> \o cause]

NoError == [name |-> "", message |-> <<>>]

\* fs.copyFile(dataPath, backupFilePath): a file of that name is replaced
copyFile(file, dir, stamp) ==
    { b \in dir : ~(b.matches /\ b.name = stamp) } \cup {BackupFile(stamp, file)}

\* backupFiles.length > 10, slice(10)
KeepBackups == 10

\* files.filter(startsWith('prompts-backup-') && endsWith('.yaml'))
backupFiles(dir) == { b \in dir : b.matches }

\* backupFiles.sort().reverse().slice(10): the files after the ten of the
\* greatest names
filesToDelete(dir) ==
    IF Cardinality(backupFiles(dir)) > KeepBackups
    THEN { b \in backupFiles(dir) :
             Cardinality({ c \in backupFiles(dir) : c.name > b.name }) >= KeepBackups }
    ELSE {}

\* the place of file b in filesToDelete, which is in descending order of name
unlinkOrder(dir, b) == Cardinality({ c \in filesToDelete(dir) : c.name > b.name }) + 1

\* cleanupOldBackups caught an error and wrote its warning
cleanupWarns(dir, fault) ==
    \/ fault.readdir
    \/ fault.unlink > 0 /\ fault.unlink <= Cardinality(filesToDelete(dir))

\* a plausible slip: the files are counted and removed whatever their names
cleanupOldBackupsAnyName(dir, fault) ==
    IF fault.readdir THEN dir
    ELSE IF Cardinality(dir) > KeepBackups
    THEN { b \in dir : Cardinality({ c \in dir : c.name > b.name }) < KeepBackups }
    ELSE dir

\* cleanupOldBackups: the files to delete are unlinked one after the other
\* until a call throws; the error is caught
cleanupOldBackups(dir, fault) ==
    IF fault.readdir THEN dir
    ELSE dir \ { b \in filesToDelete(dir) :
                   fault.unlink = 0 \/ unlinkOrder(dir, b) < fault.unlink }

\* a plausible slip: old backups are pruned whether or not a copy was made
backupAlwaysPrunes(file, dir, stamp, fault) ==
    IF ~file.exists
    THEN [threw |-> FALSE, error |-> NoError, backups |-> cleanupOldBackups(dir, fault)]
    ELSE IF fault.copy
    THEN [threw |-> TRUE, error |-> BackupError(<<"copyFile">>), backups |-> dir]
    ELSE [threw |-> FALSE, error |-> NoError,
          backups |-> cleanupOldBackups(copyFile(file, dir, stamp), fault)]

\* a plausible slip: an error of the pruning is not caught
backupPruningFatal(file, dir, stamp, fault) ==
    IF ~file.exists
    THEN [threw |-> FALSE, error |-> NoError, backups |-> dir]
    ELSE IF fault.copy
    THEN [threw |-> TRUE, error |-> BackupError(<<"copyFile">>), backups |-> dir]
    ELSE [threw |-> cleanupWarns(copyFile(file, dir, stamp), fault),
          error |-> IF cleanupWarns(copyFile(file, dir, stamp), fault)
                    THEN BackupError(<<"unlink">>) ELSE NoError,
          backups |-> cleanupOldBackups(copyFile(file, dir, stamp), fault)]

\* FileStorage.backup at time stamp
\* a plausible slip: backup() logs the error of the copy and returns
backupSwallowsError(file, dir, stamp, fault) ==
    IF ~file.exists \/ fault.copy
    THEN [threw |-> FALSE, error |-> NoError, backups |-> dir]
    ELSE [threw |-> FALSE, error |-> NoError,
          backups |-> cleanupOldBackups(copyFile(file, dir, stamp), fault)]

backup(file, dir, stamp, fault) ==
    IF ~file.exists
    THEN [threw |-> FALSE, error |-> NoError, backups |-> dir]
    ELSE IF fault.copy
    THEN [threw |-> TRUE, error |-> BackupError(<<"copyFile">>), backups |-> dir]
    ELSE [threw |-> FALSE, error |-> NoError,
          backups |-> cleanupOldBackups(copyFile(file, dir, stamp), fault)]

\* the data file after fs.writeFile(dataPath, yamlContent): the text when
\* the call succeeds, the file as it was when the call fails before it opens
\* the file, an empty file when it fails after it opened (and truncated) it
writeFile(file, text, fault) ==
    IF fault.write = "none" THEN text
    ELSE IF fault.write = "open" THEN file
    ELSE Document(TRUE, "null", <<>>)

\* a plausible slip: the file is written before the backup is taken
FileStorageSaveWriteFirst(file, dir, m, stamp, fault) ==
    LET copied == IF file.exists THEN backup(YAMLstringify(m), dir, stamp, fault)
                  ELSE [threw |-> FALSE, error |-> NoError, backups |-> dir]
    IN IF copied.threw
       THEN [threw |-> TRUE, error |-> SaveError(copied.error.message),
             file |-> file, backups |-> copied.backups]
       ELSE [threw |-> fault.write # "none",
             error |-> IF fault.write # "none" THEN SaveError(<<fault.write>>)
                       ELSE NoError,
             file |-> writeFile(file, YAMLstringify(m), fault),
             backups |-> copied.backups]

\* FileStorage.save: a data file that exists is copied to the backup
\* directory, then the data file is written; an error of either step is
\* thrown again as the Error of save
FileStorageSave(file, dir, m, stamp, fault) ==
    LET copied == IF file.exists THEN backup(file, dir, stamp, fault)
                  ELSE [threw |-> FALSE, error |-> NoError, backups |-> dir]
    IN IF copied.threw
       THEN [threw |-> TRUE, error |-> SaveError(copied.error.message),
             file |-> file, backups |-> copied.backups]
       ELSE IF fault.write # "none"
       THEN [threw |-> TRUE, error |-> SaveError(<<fault.write>>),
             file |-> writeFile(file, YAMLstringify(m), fault),
             backups |-> copied.backups]
       ELSE [threw |-> FALSE, error |-> NoError,
             file |-> writeFile(file, YAMLstringify(m), fault),
             backups |-> copied.backups]

\* the Error load() throws, its message in two parts: prefix and cause
LoadError(cause) ==
    [name |-> "Error", message |-> <<"Failed to load prompts: ", cause>>]

\* a plausible slip: a file that cannot be parsed is taken as empty
FileStorageLoadLenient(file, dir) ==
    IF ~file.exists
    THEN LET saved == FileStorageSave(file, dir, <<>>, 0, NoFault)
         IN [threw |-> FALSE, error |-> NoError, result |-> <<>>,
             file |-> saved.file, backups |-> saved.backups]
    ELSE IF ~file.parses
    THEN [threw |-> FALSE, error |-> NoError, result |-> <<>>,
          file |-> file, backups |-> dir]
    ELSE [threw |-> FALSE, error |-> NoError,
          result |-> validateAndTransformData(file), file |-> file, backups |-> dir]

\* a plausible slip: no file is created when there is none
FileStorageLoadNoCreate(file, dir) ==
    IF ~file.exists
    THEN [threw |-> FALSE, error |-> NoError, result |-> <<>>,
          file |-> file, backups |-> dir]
    ELSE IF ~file.parses
    THEN [threw |-> TRUE, error |-> LoadError("YAMLParseError"), result |-> <<>>,
          file |-> file, backups |-> dir]
    ELSE [threw |-> FALSE, error |-> NoError,
          result |-> validateAndTransformData(file), file |-> file, backups |-> dir]

\* FileStorage.load (the save of the empty mapping finds no data file, so
\* the time stamp it is given is not used)
FileStorageLoad(file, dir) ==
    IF ~file.exists
    THEN LET saved == FileStorageSave(file, dir, <<>>, 0, NoFault)
         IN [threw |-> FALSE, error |-> NoError, result |-> <<>>,
             file |-> saved.file, backups |-> saved.backups]
    ELSE IF ~file.parses
    THEN [threw |-> TRUE, error |-> LoadError("YAMLParseError"), result |-> <<>>,
          file |-> file, backups |-> dir]
    ELSE [threw |-> FALSE, error |-> NoError,
          result |-> validateAndTransformData(file), file |-> file, backups |-> dir]


(***************************************************************************)
(* PromptService.  Each handler is given, after ensureInitialized, as the  *)
(* effect it has on the mapping it works on:                               *)
(*   mem   - this.prompts when the handler ends,                           *)
(*   saved - the mapping handed to storage.save (None: save not called),   *)
(*   found - the result is a prompt (or true) rather than null (or false), *)
(*   ret   - the prompt returned (NoPrompt when there is none).            *)
(***************************************************************************)
Effect(mem, saved, found, ret) ==
    [mem |-> mem, saved |-> saved, found |-> found, ret |-> ret]

\* CreatePromptRequest: description, variables and author are optional
CreateRequest(title, content, description, tags, category, variables, author) ==
    [title |-> title, content |-> content, description |-> description,
     tags |-> tags, category |-> category, variables |-> variables,
     author |-> author]

\* UpdatePromptRequest: every property is optional
UpdateRequest(title, content, description, tags, category, variables) ==
    [title |-> title, content |-> content, description |-> description,
     tags |-> tags, category |-> category, variables |-> variables]

\* a plausible slip: createdAt and updatedAt come from two readings of the
\* clock, the second one later
NewPromptTwoClocks(id, request, now) ==
    Prompt(id, request.title, request.content, request.description,
           SetSpread(request.tags), request.category,
           IF IsSome(request.variables) THEN request.variables ELSE Some(<<>>),
           Metadata(now, now + 1, <<"1", ".", "0", ".", "0">>,
                    IF IsSome(request.author) /\ Len(Val(request.author)) > 0
                    THEN request.author ELSE None,
                    Some(0)))

\* the object literal of createPrompt
NewPrompt(id, request, now) ==
    Prompt(id, request.title, request.content, request.description,
           SetSpread(request.tags), request.category,
           IF IsSome(request.variables) THEN request.variables ELSE Some(<<>>),
           Metadata(now, now, <<"1", ".", "0", ".", "0">>,
                    IF IsSome(request.author) /\ Len(Val(request.author)) > 0
                    THEN request.author ELSE None,
                    Some(0)))

createPrompt(m, request, id, now) ==
    LET prompt == NewPrompt(id, request, now)
        mem == Put(m, id, prompt)
    IN Effect(mem, Some(mem), TRUE, prompt)

\* prompt.metadata.usage || 0
UsageOf(prompt) ==
    IF IsSome(prompt.metadata.usage) THEN Val(prompt.metadata.usage) ELSE 0

\* a plausible slip of precedence, usage || (0 + 1): a counter that is not
\* zero stays as it is
getPromptPrecedence(m, id) ==
    IF Has(m, id)
    THEN LET prompt == Lookup(m, id)
             bumped == [prompt EXCEPT !.metadata.usage =
                           Some(IF UsageOf(prompt) # 0 THEN UsageOf(prompt) ELSE 1)]
             mem == Put(m, id, bumped)
         IN Effect(mem, Some(mem), TRUE, bumped)
    ELSE Effect(m, None, FALSE, NoPrompt)

\* a plausible slip: the mapping is saved before the counter is bumped
getPromptSaveFirst(m, id) ==
    IF Has(m, id)
    THEN LET prompt == Lookup(m, id)
             bumped == [prompt EXCEPT !.metadata.usage = Some(UsageOf(prompt) + 1)]
         IN Effect(Put(m, id, bumped), Some(m), TRUE, bumped)
    ELSE Effect(m, None, FALSE, NoPrompt)

\* a plausible slip: a read counts as a change of the record, whose version
\* is bumped with its usage
getPromptBumpsVersion(m, id) ==
    IF Has(m, id)
    THEN LET prompt == Lookup(m, id)
             bumped == [prompt EXCEPT !.metadata.usage = Some(UsageOf(prompt) + 1),
                                      !.metadata.version = incrementVersion(@)]
             mem == Put(m, id, bumped)
         IN Effect(mem, Some(mem), TRUE, bumped)
    ELSE Effect(m, None, FALSE, NoPrompt)

getPrompt(m, id) ==
    IF Has(m, id)
    THEN LET prompt == Lookup(m, id)
             bumped == [prompt EXCEPT !.metadata.usage = Some(UsageOf(prompt) + 1)]
             mem == Put(m, id, bumped)
         IN Effect(mem, Some(mem), TRUE, bumped)
    ELSE IF id \in InheritedNames
    THEN Effect(m, None, FALSE, TypeError("usage"))
    ELSE Effect(m, None, FALSE, NoPrompt)

\* a plausible slip: description and variables are taken from the request
\* even when it does not carry them
UpdatedPromptClobber(existing, request, now) ==
    Prompt(existing.id,
           IF IsSome(request.title) THEN Val(request.title) ELSE existing.title,
           IF IsSome(request.content) THEN Val(request.content) ELSE existing.content,
           request.description,
           IF IsSome(request.tags) THEN SetSpread(Val(request.tags)) ELSE existing.tags,
           IF IsSome(request.category) THEN Val(request.category) ELSE existing.category,
           request.variables,
           [existing.metadata EXCEPT
               !.updatedAt = now,
               !.version = incrementVersion(existing.metadata.version)])

\* a plausible slip: the usage count starts again with every update
UpdatedPromptResetsUsage(existing, request, now) ==
    Prompt(existing.id,
           IF IsSome(request.title) THEN Val(request.title) ELSE existing.title,
           IF IsSome(request.content) THEN Val(request.content) ELSE existing.content,
           IF IsSome(request.description) THEN request.description
           ELSE existing.description,
           IF IsSome(request.tags) THEN SetSpread(Val(request.tags)) ELSE existing.tags,
           IF IsSome(request.category) THEN Val(request.category) ELSE existing.category,
           IF IsSome(request.variables) THEN request.variables ELSE existing.variables,
           [existing.metadata EXCEPT
               !.updatedAt = now,
               !.version = incrementVersion(existing.metadata.version),
               !.usage = Some(0)])

\* the object literal of updatePrompt
UpdatedPrompt(existing, request, now) ==
    Prompt(existing.id,
           IF IsSome(request.title) THEN Val(request.title) ELSE existing.title,
           IF IsSome(request.content) THEN Val(request.content) ELSE existing.content,
           IF IsSome(request.description) THEN request.description
           ELSE existing.description,
           IF IsSome(request.tags) THEN SetSpread(Val(request.tags)) ELSE existing.tags,
           IF IsSome(request.category) THEN Val(request.category) ELSE existing.category,
           IF IsSome(request.variables) THEN request.variables ELSE existing.variables,
           [existing.metadata EXCEPT
               !.updatedAt = now,
               !.version = incrementVersion(existing.metadata.version)])

\* (for an inherited name existingPrompt has no metadata, and reading its
\* version throws before this.prompts is assigned)
updatePrompt(m, id, request, now) ==
    IF ~Has(m, id) /\ id \in InheritedNames
    THEN Effect(m, None, FALSE, TypeError("version"))
    ELSE IF ~Has(m, id) THEN Effect(m, None, FALSE, NoPrompt)
    ELSE LET updatedPrompt == UpdatedPrompt(Lookup(m, id), request, now)
             mem == Put(m, id, updatedPrompt)
         IN Effect(mem, Some(mem), TRUE, updatedPrompt)

\* (for an inherited name the test passes, delete removes nothing, and the
\* mapping is saved)
deletePrompt(m, id) ==
    IF ~Has(m, id) /\ id \in InheritedNames
    THEN Effect(m, Some(m), TRUE, NoPrompt)
    ELSE IF ~Has(m, id) THEN Effect(m, None, FALSE, NoPrompt)
    ELSE LET mem == Remove(m, id)
         IN Effect(mem, Some(mem), TRUE, NoPrompt)


\* SearchFilters: every property is optional
SearchFilters(tags, category, title, limit, offset) ==
    [tags |-> tags, category |-> category, title |-> title, limit |-> limit,
     offset |-> offset]

\* PaginatedResponse<Prompt>
Page(items, total, limit, offset) ==
    [items |-> items, total |-> total, limit |-> limit, offset |-> offset]

\* Array.prototype.filter
RECURSIVE FilterAcc(_, _, _, _)
FilterAcc(xs, keep, i, acc) ==
    IF i > Len(xs) THEN acc
    ELSE FilterAcc(xs, keep, i + 1, IF keep[i] THEN Append(acc, xs[i]) ELSE acc)

\* keep[i] is what the callback returns for xs[i]
Filter(xs, keep) == FilterAcc(xs, keep, 1, <<>>)

\* Array.prototype.sort with a consistent comparator: the sort is stable, so
\* an element is preceded by those that compare lower and by the earlier
\* ones that compare equal
\* (compare[j][i] is what the comparator returns for xs[j], xs[i])
Sort(xs, compare) ==
    LET n == Len(xs)
        before(i) == { j \in 1..n :
                         \/ compare[j][i] < 0
                         \/ compare[j][i] = 0 /\ j < i }
    IN [p \in 1..n |-> xs[CHOOSE i \in 1..n : Cardinality(before(i)) = p - 1]]

\* Array.prototype.slice(from, to) for 0 <= from <= to
slice(xs, from, to) ==
    SubSeq(xs, from + 1, IF to < Len(xs) THEN to ELSE Len(xs))

DefaultLimit == 50

\* p.category.toLowerCase().includes(filters.category.toLowerCase())
categoryMatches(p, category) ==
    includes(toLowerCase(p.category), toLowerCase(category))

\* a plausible slip: every requested tag must match
tagsMatchAll(p, tags) ==
    \A i \in 1..Len(tags) :
        \E k \in 1..Len(p.tags) :
            includes(toLowerCase(p.tags[k]), toLowerCase(tags[i]))

\* filters.tags.some(tag => p.tags.some(pTag => ...))
tagsMatch(p, tags) ==
    \E i \in 1..Len(tags) :
        \E k \in 1..Len(p.tags) :
            includes(toLowerCase(p.tags[k]), toLowerCase(tags[i]))

\* the title filter of listPrompts; an empty description is falsy
titleMatches(p, title) ==
    \/ includes(toLowerCase(p.title), toLowerCase(title))
    \/ /\ IsSome(p.description)
       /\ Len(Val(p.description)) > 0
       /\ includes(toLowerCase(Val(p.description)), toLowerCase(title))

\* the category and tags filters shared by listPrompts and searchPrompts
categoryAndTags(ps, filters) ==
    LET byCategory ==
            IF IsSome(filters.category) /\ Len(Val(filters.category)) > 0
            THEN Filter(ps, [i \in 1..Len(ps) |->
                                categoryMatches(ps[i], Val(filters.category))])
            ELSE ps
    IN IF IsSome(filters.tags) /\ Len(Val(filters.tags)) > 0
       THEN Filter(byCategory, [i \in 1..Len(byCategory) |->
                                   tagsMatch(byCategory[i], Val(filters.tags))])
       ELSE byCategory

\* a plausible slip: the comparator stops at the usage counts
listCompareUsageOnly(a, b) == UsageOf(b) - UsageOf(a)

\* the comparator of listPrompts
listCompare(a, b) ==
    LET usageDiff == UsageOf(b) - UsageOf(a)
    IN IF usageDiff # 0 THEN usageDiff
       ELSE b.metadata.updatedAt - a.metadata.updatedAt

\* total, limit, offset and the slice
paginate(sorted, filters) ==
    LET limit == IF IsSome(filters.limit) /\ Val(filters.limit) # 0
                 THEN Val(filters.limit) ELSE DefaultLimit
        offset == IF IsSome(filters.offset) THEN Val(filters.offset) ELSE 0
    IN Page(slice(sorted, offset, offset + limit), Len(sorted), limit, offset)

listPrompts(m, filters) ==
    LET filtered == categoryAndTags(Values(m), filters)
        byTitle ==
            IF IsSome(filters.title) /\ Len(Val(filters.title)) > 0
            THEN Filter(filtered, [i \in 1..Len(filtered) |->
                                      titleMatches(filtered[i], Val(filters.title))])
            ELSE filtered
        compare == [i \in 1..Len(byTitle) |-> [j \in 1..Len(byTitle) |->
                       listCompare(byTitle[i], byTitle[j])]]
    IN paginate(Sort(byTitle, compare), filters)

\* a plausible slip: the category is left out of the searched properties
queryMatchesNoCategory(prompt, query) ==
    LET queryLower == toLowerCase(query)
    IN \/ includes(toLowerCase(prompt.title), queryLower)
       \/ /\ IsSome(prompt.description)
          /\ Len(Val(prompt.description)) > 0
          /\ includes(toLowerCase(Val(prompt.description)), queryLower)
       \/ includes(toLowerCase(prompt.content), queryLower)
       \/ \E k \in 1..Len(prompt.tags) :
              includes(toLowerCase(prompt.tags[k]), queryLower)

\* the first filter of searchPrompts
queryMatches(prompt, query) ==
    LET queryLower == toLowerCase(query)
    IN \/ includes(toLowerCase(prompt.title), queryLower)
       \/ /\ IsSome(prompt.description)
          /\ Len(Val(prompt.description)) > 0
          /\ includes(toLowerCase(Val(prompt.description)), queryLower)
       \/ includes(toLowerCase(prompt.content), queryLower)
       \/ \E k \in 1..Len(prompt.tags) :
              includes(toLowerCase(prompt.tags[k]), queryLower)
       \/ includes(toLowerCase(prompt.category), queryLower)

calculateRelevanceScore(prompt, query) ==
    LET queryLower == toLowerCase(query)
    IN (IF includes(toLowerCase(prompt.title), queryLower) THEN 10 ELSE 0)
       + (IF \E k \in 1..Len(prompt.tags) :
                 includes(toLowerCase(prompt.tags[k]), queryLower)
          THEN 5 ELSE 0)
       + (IF includes(toLowerCase(prompt.category), queryLower) THEN 3 ELSE 0)
       + (IF /\ IsSome(prompt.description)
             /\ Len(Val(prompt.description)) > 0
             /\ includes(toLowerCase(Val(prompt.description)), queryLower)
          THEN 2 ELSE 0)
       + (IF includes(toLowerCase(prompt.content), queryLower) THEN 1 ELSE 0)

searchPrompts(m, query, filters) ==
    LET all == Values(m)
        matched == Filter(all, [i \in 1..Len(all) |-> queryMatches(all[i], query)])
        filtered == categoryAndTags(matched, filters)
        comparator(a, b) ==
            LET scoreA == calculateRelevanceScore(a, query)
                scoreB == calculateRelevanceScore(b, query)
            IN IF scoreA # scoreB THEN scoreB - scoreA
               ELSE UsageOf(b) - UsageOf(a)
        compare == [i \in 1..Len(filtered) |-> [j \in 1..Len(filtered) |->
                       comparator(filtered[i], filtered[j])]]
    IN paginate(Sort(filtered, compare), filters)

\* the UTF-16 code units of the characters the model's strings are made of
CharCodes ==
    [A |-> 65, B |-> 66, C |-> 67, T |-> 84, a |-> 97, b |-> 98, c |-> 99,
     d |-> 100, m |-> 109, n |-> 110, t |-> 116, x |-> 120, y |-> 121, z |-> 122]

\* the default comparator of Array.prototype.sort: strings by code units
RECURSIVE codeUnitCompare(_, _, _)
codeUnitCompare(a, b, i) ==
    IF i > Len(a) /\ i > Len(b) THEN 0
    ELSE IF i > Len(a) THEN -1
    ELSE IF i > Len(b) THEN 1
    ELSE IF CharCodes[a[i]] < CharCodes[b[i]] THEN -1
    ELSE IF CharCodes[a[i]] > CharCodes[b[i]] THEN 1
    ELSE codeUnitCompare(a, b, i + 1)

\* a plausible slip: the values are returned in the order the Set holds them
insertionOrderUnique(xs) == SetSpread(xs)

\* Array.from(new Set(xs)).sort()
sortedUnique(xs) ==
    LET unique == SetSpread(xs)
    IN Sort(unique, [i \in 1..Len(unique) |-> [j \in 1..Len(unique) |->
                        codeUnitCompare(unique[i], unique[j], 1)]])

\* Array.prototype.flatMap(p => p.tags)
RECURSIVE flatMapTags(_, _)
flatMapTags(ps, i) ==
    IF i > Len(ps) THEN <<>> ELSE ps[i].tags \o flatMapTags(ps, i + 1)

getCategories(m) == sortedUnique([i \in 1..Len(m) |-> m[i].value.category])

getTags(m) == sortedUnique(flatMapTags(Values(m), 1))

\* slice(0, 5)
TopCount == 5

\* an element of mostUsedPrompts
Summary(p) == [id |-> p.id, title |-> p.title, usage |-> UsageOf(p)]

\* a plausible slip: the comparator's operands are the wrong way round
getStatsLeastUsed(m) ==
    LET all == Values(m)
        sorted == Sort(all, [i \in 1..Len(all) |-> [j \in 1..Len(all) |->
                                UsageOf(all[i]) - UsageOf(all[j])]])
        top == slice(sorted, 0, TopCount)
    IN [totalPrompts |-> Len(all),
        totalCategories |-> Len(getCategories(m)),
        totalTags |-> Len(getTags(m)),
        mostUsedPrompts |-> [n \in 1..Len(top) |-> Summary(top[n])]]

getStats(m) ==
    LET all == Values(m)
        sorted == Sort(all, [i \in 1..Len(all) |-> [j \in 1..Len(all) |->
                                UsageOf(all[j]) - UsageOf(all[i])]])
        top == slice(sorted, 0, TopCount)
    IN [totalPrompts |-> Len(all),
        totalCategories |-> Len(getCategories(m)),
        totalTags |-> Len(getTags(m)),
        mostUsedPrompts |-> [n \in 1..Len(top) |-> Summary(top[n])]]


(***************************************************************************)
(* Inputs of the model: the data files a service starts from and the       *)
(* requests it is sent.                                                    *)
(***************************************************************************)
V100 == <<"1", ".", "0", ".", "0">>
V102 == <<"1", ".", "0", ".", "2">>
V239 == <<"2", ".", "3", ".", "9">>

\* a well-formed record stored under its own id
StoredA ==
    Prompt("k1", <<"A", "b">>, <<"x">>, Some(<<"d">>), <<<<"a">>>>, <<"c">>, None,
           Metadata(0, 1, V102, Some(<<"m">>), Some(5)))

\* records a hand-edited file can hold and isValidPrompt accepts: repeated
\* tags, no usage, no variables, and an id that is another entry's key
StoredB ==
    Prompt("k2", <<"b">>, <<"y">>, None, <<<<"a">>, <<"a">>>>, <<"C">>, None,
           Metadata(1, 1, V239, None, None))

StoredC ==
    Prompt("k1", <<"a">>, <<"x">>, None, <<<<"b">>>>, <<"c">>, Some(<<"v1">>),
           Metadata(0, 0, V100, None, Some(0)))

\* a value with no metadata: rejected by isValidPrompt
BrokenValue ==
    YamlValue(TRUE, [GoodTypes EXCEPT !.metadata = "undefined"], NoPrompt)

FileA ==
    Document(TRUE, "map",
             <<Entry("k1", YamlValue(TRUE, GoodTypes, StoredA)),
               Entry("k2", BrokenValue)>>)

FileB ==
    Document(TRUE, "map",
             <<Entry("k1", YamlValue(TRUE, GoodTypes, StoredB)),
               Entry("k2", YamlValue(TRUE, GoodTypes, StoredC))>>)

\* two records, each under its id
AsyncMapping == <<Entry("k1", StoredA), Entry("k2", StoredB)>>

\* text YAML.parse throws on
CorruptFile == Document(FALSE, "null", <<>>)

InitFiles == {NoFile, CorruptFile, FileA, FileB}

\* the backup directory a store starts with: empty, or holding the ten
\* backups that earlier runs left
TenBackups == { BackupFile(0 - n, FileA) : n \in 0..(KeepBackups - 1) }

\* twelve backups and a file of another name: what is left when pruning
\* failed before
CrowdedBackups ==
    TenBackups \cup {BackupFile(0 - 10, FileB), BackupFile(0 - 11, FileB),
                     OtherFile(0 - 20, FileA)}

InitBackups == {{}, TenBackups, CrowdedBackups}

CreateRequests ==
    [c1 |-> CreateRequest(<<"t">>, <<"x">>, None,
                          <<<<"a">>, <<"b">>, <<"a">>>>, <<"c">>, None, None),
     c2 |-> CreateRequest(<<"T">>, <<"y">>, Some(<<"d">>),
                          <<<<"a">>, <<"A">>, <<"a">>, <<"A">>>>, <<"c">>,
                          Some(<<"v1", "v2">>), Some(<<"m">>)),
     c3 |-> CreateRequest(<<"t">>, <<"x">>, None, <<>>, <<"c">>,
                          Some(<<>>), Some(<<>>))]

UpdateRequests ==
    [u1 |-> UpdateRequest(Some(<<"n">>), None, None, None, None, None),
     u2 |-> UpdateRequest(None, None, None,
                          Some(<<<<"b">>, <<"a">>, <<"b">>>>), None, None),
     u3 |-> UpdateRequest(None, Some(<<"z">>), Some(<<>>), Some(<<>>),
                          Some(<<"B">>), Some(<<"v2">>))]

\* the values randomUUID() returns, in the order it returns them: distinct
\* from one another and from the keys of the data file
UuidTable == <<"u1", "u2", "u3">>

\* the ids a caller can name: the keys a data file may hold (a key whose
\* value is rejected, or that was deleted, is not in the mapping) and the ids
\* generated so far
IdInputs(n) == {"k1", "k2"} \cup { UuidTable[i] : i \in 1..n }

Times == 1..MaxTime

\* records for the queries: mixed case in every searched property, a missing
\* and an empty description, a missing usage, equal usage counts
QueryA ==
    Prompt("k1", <<"A", "b">>, <<"x">>, None, <<<<"a", "b">>, <<"c">>>>, <<"c", "B">>,
           None, Metadata(0, 1, V100, None, Some(1)))

QueryB ==
    Prompt("k2", <<"b">>, <<"b", "a">>, Some(<<"A">>), <<<<"B">>>>, <<"a">>,
           None, Metadata(0, 2, V100, None, None))

QueryC ==
    Prompt("k3", <<"c">>, <<"c">>, Some(<<>>), <<>>, <<"C", "b">>,
           None, Metadata(0, 2, V100, None, Some(1)))

QueryFileA ==
    Document(TRUE, "map",
             <<Entry("k1", YamlValue(TRUE, GoodTypes, QueryA)),
               Entry("k2", YamlValue(TRUE, GoodTypes, QueryB)),
               Entry("k3", YamlValue(TRUE, GoodTypes, QueryC))>>)

QueryFileB ==
    Document(TRUE, "map",
             <<Entry("k2", YamlValue(TRUE, GoodTypes, QueryB)),
               Entry("k1", YamlValue(TRUE, GoodTypes, QueryA))>>)

\* QueryB with a usage count, stored after it
QueryD ==
    Prompt("k4", <<"b">>, <<"b", "a">>, Some(<<"A">>), <<<<"B">>>>, <<"a">>,
           None, Metadata(0, 1, V100, None, Some(2)))

QueryFileC ==
    Document(TRUE, "map",
             <<Entry("k2", YamlValue(TRUE, GoodTypes, QueryB)),
               Entry("k4", YamlValue(TRUE, GoodTypes, QueryD)),
               Entry("k3", YamlValue(TRUE, GoodTypes, QueryC))>>)

\* six records, so that one is left out of the five most used
QueryE ==
    Prompt("k5", <<"c">>, <<"x">>, None, <<<<"c">>, <<"a">>>>, <<"B">>,
           None, Metadata(0, 1, V100, None, Some(7)))

QueryF ==
    Prompt("k6", <<"a">>, <<"y">>, None, <<<<"A">>>>, <<"c">>,
           None, Metadata(0, 1, V100, None, Some(3)))

QueryFileD ==
    Document(TRUE, "map",
             <<Entry("k1", YamlValue(TRUE, GoodTypes, QueryA)),
               Entry("k2", YamlValue(TRUE, GoodTypes, QueryB)),
               Entry("k3", YamlValue(TRUE, GoodTypes, QueryC)),
               Entry("k4", YamlValue(TRUE, GoodTypes, QueryD)),
               Entry("k5", YamlValue(TRUE, GoodTypes, QueryE)),
               Entry("k6", YamlValue(TRUE, GoodTypes, QueryF))>>)

\* a record that matches "a" in its title only, stored before one that
\* matches it everywhere but in its title
QueryG ==
    Prompt("k7", <<"a">>, <<"x">>, None, <<>>, <<"c">>,
           None, Metadata(0, 1, V100, None, Some(1)))

QueryH ==
    Prompt("k8", <<"b">>, <<"a">>, Some(<<"A">>), <<<<"a">>>>, <<"a">>,
           None, Metadata(0, 1, V100, None, Some(1)))

QueryFileE ==
    Document(TRUE, "map",
             <<Entry("k7", YamlValue(TRUE, GoodTypes, QueryG)),
               Entry("k8", YamlValue(TRUE, GoodTypes, QueryH))>>)

QueryFiles == {QueryFileA, QueryFileB, QueryFileC, QueryFileD} \cup InitFiles

\* filters on the records, with the default page
ContentFilters ==
    { SearchFilters(tags, category, title, None, None) :
        tags \in {None, Some(<<>>), Some(<<<<"b">>>>), Some(<<<<"A">>, <<"B">>>>)},
        category \in {None, Some(<<>>), Some(<<"b">>), Some(<<"C", "B">>)},
        title \in {None, Some(<<>>), Some(<<"a">>), Some(<<"B">>)} }

\* pages of the unfiltered and of a filtered collection
PageFilters ==
    { SearchFilters(None, category, None, limit, offset) :
        category \in {None, Some(<<"b">>)},
        limit \in {None, Some(0), Some(1), Some(2)},
        offset \in {None, Some(0), Some(1)} }

FilterInputs == ContentFilters \cup PageFilters

QueryInputs == {<<>>, <<"a">>, <<"B">>, <<"c", "b">>}

(***************************************************************************)
(* State.                                                                  *)
(***************************************************************************)
VARIABLES
    dataFile,     \* the data file of FileStorage (prompts.yaml)
    backups,      \* the backup directory of FileStorage
    clock,        \* the latest reading of the clock (new Date())
    prompts,      \* PromptService.prompts
    initialized,  \* PromptService.initialized
    uuidCount,    \* calls of randomUUID() so far
    nUpdates,     \* history: successful updates of each record createPrompt made
    steps,        \* service calls so far
    last,         \* the last service call: its name, arguments and result
    disk,         \* the file system: "sound", "failing" when its calls can throw,
                  \* "shared" while another process is about to write the data file
    calls,        \* history: calls of storage.load and storage.save by the service
    tasks         \* the handlers that have started and not yet returned

vars == <<dataFile, backups, clock, prompts, initialized, uuidCount, nUpdates, steps, last,
          disk, calls, tasks>>

\* the faults a call of save() or backup() can meet
SaveFaults ==
    { NoFault,
      Fault(TRUE, 0, FALSE, "none"),
      Fault(FALSE, 1, FALSE, "none"),
      Fault(FALSE, 2, FALSE, "none"),
      Fault(FALSE, 0, TRUE, "none"),
      Fault(FALSE, 0, FALSE, "open"),
      Fault(FALSE, 0, FALSE, "write") }

Faults(d) == IF d = "failing" THEN SaveFaults ELSE {NoFault}

NoCalls == [load |-> 0, save |-> 0]

\* the calls a run makes: fewer when the file system can fail, where every
\* call has many outcomes
StepLimit == IF disk = "failing" THEN MaxFaultySteps ELSE MaxSteps

\* pre: this.prompts[id] when the handler starts (NoPrompt when there is
\* none); out: the prompt it returns
Call(op, id, req, now, threw, found, pre, out) ==
    [op |-> op, id |-> id, req |-> req, now |-> now, threw |-> threw,
     found |-> found, pre |-> pre, out |-> out]

Init ==
    /\ dataFile \in InitFiles
    /\ backups = {}
    /\ clock = 1
    /\ prompts = <<>>
    /\ initialized = FALSE
    /\ uuidCount = 0
    /\ nUpdates = <<>>
    /\ steps = 0
    /\ last = Call("new", "", "", 0, FALSE, FALSE, NoPrompt, NoPrompt)
    /\ disk = "sound"
    /\ calls = NoCalls
    /\ tasks = <<>>

\* a plausible slip: the data file is read again by every handler
HydratedEveryTime == FileStorageLoad(dataFile, backups)

\* ensureInitialized/initialize run to completion: the mapping the handler
\* then works on, and the data file load() leaves behind
Hydrated ==
    IF initialized
    THEN [threw |-> FALSE, error |-> NoError, result |-> prompts,
          file |-> dataFile, backups |-> backups]
    ELSE FileStorageLoad(dataFile, backups)

\* what new Date() can give after the reading from: the clock does not go
\* back, and two readings can fall in the same millisecond
Readings(from) == { t \in Times : t >= from /\ t >= clock }

\* a handler that ran to completion after ensureInitialized; e is its Effect.
\* storage.save, when called, replaces the data file.
Complete(op, id, req, now, e) ==
    /\ steps < StepLimit
    /\ steps' = steps + 1
    /\ UNCHANGED <<disk, tasks>>
    /\ IF Hydrated.threw
       THEN /\ last' = Call(op, id, req, now, TRUE, FALSE, NoPrompt, Hydrated.error)
            /\ calls' = [calls EXCEPT !.load = @ + 1]
            /\ UNCHANGED <<dataFile, backups, clock, prompts, initialized>>
       ELSE LET pre == IF Has(Hydrated.result, id)
                       THEN Lookup(Hydrated.result, id) ELSE NoPrompt
            IN /\ prompts' = e.mem
               /\ initialized' = TRUE
               /\ calls' = [load |-> calls.load + (IF initialized THEN 0 ELSE 1),
                            save |-> calls.save + (IF IsSome(e.saved) THEN 1 ELSE 0)]
               /\ IF IsSome(e.saved)
                  THEN \E stamp \in Readings(now), fault \in Faults(disk) :
                           LET saved == FileStorageSave(Hydrated.file, Hydrated.backups,
                                                        Val(e.saved), stamp, fault)
                           IN /\ dataFile' = saved.file
                              /\ backups' = saved.backups
                              /\ clock' = stamp
                              /\ last' = IF saved.threw
                                         THEN Call(op, id, req, now, TRUE, e.found,
                                                   pre, saved.error)
                                         ELSE Call(op, id, req, now, FALSE, e.found,
                                                   pre, e.ret)
                  ELSE /\ dataFile' = Hydrated.file
                       /\ backups' = Hydrated.backups
                       /\ clock' = clock
                       /\ last' = Call(op, id, req, now, IsError(e.ret), e.found, pre,
                                         e.ret)

\* await service.initialize()
Initialize ==
    /\ Complete("initialize", "", "", 0,
                Effect(Hydrated.result, None, FALSE, NoPrompt))
    /\ UNCHANGED <<uuidCount, nUpdates>>

CreatePrompt ==
    \E req \in DOMAIN CreateRequests, now \in Readings(clock) :
        /\ uuidCount < MaxCreates
        /\ ~Hydrated.threw
        /\ LET id == UuidTable[uuidCount + 1]
           IN /\ Complete("create", id, req, now,
                          createPrompt(Hydrated.result, CreateRequests[req], id, now))
              /\ nUpdates' = Put(nUpdates, id, 0)
        /\ uuidCount' = uuidCount + 1

\* createPrompt on a service whose hydration fails: load() throws before
\* randomUUID() is reached
CreatePromptFails ==
    \E req \in DOMAIN CreateRequests :
        /\ Hydrated.threw
        /\ Complete("create", "", req, 0, Effect(<<>>, None, FALSE, NoPrompt))
        /\ UNCHANGED <<uuidCount, nUpdates>>

GetPrompt ==
    \E id \in IdInputs(uuidCount) :
        /\ Complete("get", id, "", 0, getPrompt(Hydrated.result, id))
        /\ UNCHANGED <<uuidCount, nUpdates>>

\* (for an id that is not a key the request and the time do not matter: one
\* of each is tried)
UpdatePrompt ==
    \E id \in IdInputs(uuidCount), req \in DOMAIN UpdateRequests, now \in Readings(clock) :
        /\ Hydrated.threw \/ Has(Hydrated.result, id) \/ (req = "u1" /\ now = clock)
        /\ Complete("update", id, req, now,
                    updatePrompt(Hydrated.result, id, UpdateRequests[req], now))
        /\ nUpdates' = IF ~Hydrated.threw /\ Has(Hydrated.result, id) /\ Has(nUpdates, id)
                       THEN Put(nUpdates, id, Lookup(nUpdates, id) + 1)
                       ELSE nUpdates
        /\ UNCHANGED uuidCount

DeletePrompt ==
    \E id \in IdInputs(uuidCount) :
        /\ Complete("delete", id, "", 0, deletePrompt(Hydrated.result, id))
        /\ nUpdates' = IF Hydrated.threw THEN nUpdates ELSE Remove(nUpdates, id)
        /\ UNCHANGED uuidCount

Next ==
    \/ Initialize
    \/ CreatePrompt
    \/ CreatePromptFails
    \/ GetPrompt
    \/ UpdatePrompt
    \/ DeletePrompt

Spec == Init /\ [][Next]_vars

\* the ids a caller of the service can name: also an id that was never a
\* key, and a name every object inherits
NameInputs(n) == IdInputs(n) \cup {"k3", "constructor"}

GetNamed ==
    \E id \in NameInputs(uuidCount) :
        /\ Complete("get", id, "", 0, getPrompt(Hydrated.result, id))
        /\ UNCHANGED <<uuidCount, nUpdates>>

UpdateNamed ==
    \E id \in NameInputs(uuidCount), req \in DOMAIN UpdateRequests,
       now \in Readings(clock) :
        /\ Has(Hydrated.result, id) \/ (req = "u1" /\ now = clock)
        /\ Complete("update", id, req, now,
                    updatePrompt(Hydrated.result, id, UpdateRequests[req], now))
        /\ nUpdates' = IF Has(Hydrated.result, id) /\ Has(nUpdates, id)
                       THEN Put(nUpdates, id, Lookup(nUpdates, id) + 1)
                       ELSE nUpdates
        /\ UNCHANGED uuidCount

DeleteNamed ==
    \E id \in NameInputs(uuidCount) :
        /\ Complete("delete", id, "", 0, deletePrompt(Hydrated.result, id))
        /\ nUpdates' = IF Has(nUpdates, id) THEN Remove(nUpdates, id) ELSE nUpdates
        /\ UNCHANGED uuidCount

\* await service.initialize() on a file of two records
InitNames ==
    /\ dataFile = FileB
    /\ backups = {}
    /\ clock = 1
    /\ prompts = FileStorageLoad(FileB, {}).result
    /\ initialized = TRUE
    /\ uuidCount = 0
    /\ nUpdates = <<>>
    /\ steps = 0
    /\ last = Call("initialize", "", "", 0, FALSE, FALSE, NoPrompt, NoPrompt)
    /\ disk = "sound"
    /\ calls = [load |-> 1, save |-> 0]
    /\ tasks = <<>>

NextNames ==
    \/ CreatePrompt
    \/ GetNamed
    \/ UpdateNamed
    \/ DeleteNamed

\* an initialized service called with any id
SpecNames == InitNames /\ [][NextNames]_vars

\* another process replaces the data file, once
OtherWrites ==
    \E file \in {FileB, CorruptFile} :
        /\ disk = "shared"
        /\ file # dataFile
        /\ dataFile' = file
        /\ disk' = "sound"
        /\ last' = Call("write", "", "", 0, FALSE, FALSE, NoPrompt, NoPrompt)
        /\ UNCHANGED <<backups, clock, prompts, initialized, uuidCount, nUpdates, steps,
                       calls, tasks>>

InitShared ==
    /\ dataFile \in {FileA, CorruptFile}
    /\ backups = {}
    /\ clock = 1
    /\ prompts = <<>>
    /\ initialized = FALSE
    /\ uuidCount = 0
    /\ nUpdates = <<>>
    /\ steps = 0
    /\ last = Call("new", "", "", 0, FALSE, FALSE, NoPrompt, NoPrompt)
    /\ disk = "shared"
    /\ calls = NoCalls
    /\ tasks = <<>>

\* the service on a file system whose calls can fail: new, or hydrated from
\* the file its last save wrote
InitFaulty ==
    /\ dataFile \in InitFiles \cup {YAMLstringify(AsyncMapping)}
    /\ backups = {}
    /\ clock = 1
    /\ initialized \in BOOLEAN
    /\ initialized => dataFile = YAMLstringify(AsyncMapping)
    /\ prompts = IF initialized THEN AsyncMapping ELSE <<>>
    /\ uuidCount = 0
    /\ nUpdates = <<>>
    /\ steps = 0
    /\ last = Call("new", "", "", 0, FALSE, FALSE, NoPrompt, NoPrompt)
    /\ disk = "failing"
    /\ calls = [load |-> IF initialized THEN 1 ELSE 0, save |-> 0]
    /\ tasks = <<>>

SpecFaulty == InitFaulty /\ [][Next]_vars

\* the service and another writer of its data file
SpecShared == InitShared /\ [][Next \/ OtherWrites]_vars


(***************************************************************************)
(* Handlers that run at the same time.  A handler runs until it awaits a   *)
(* file-system call, and goes on when the call has completed:              *)
(*   Begin     - the call, up to the first await: on a hydrated service    *)
(*               the handler looks up and changes this.prompts and calls   *)
(*               storage.save; otherwise initialize() calls storage.load,  *)
(*   LoadRead  - load() reads the data file,                               *)
(*   Resume    - load() has returned: initialize() assigns this.prompts    *)
(*               and sets the flag, the handler looks up and changes       *)
(*               this.prompts and calls storage.save,                      *)
(*   Backup    - save() copies the data file and prunes the backups,       *)
(*   Stringify - save() serialises the mapping object it was given and     *)
(*               calls fs.writeFile,                                       *)
(*   Write     - the file is written; save() and the handler return.       *)
(* The steps of different handlers interleave in any order.                *)
(***************************************************************************)
TaskIds == {"A", "B"}

\* ref: the object given to storage.save, which is this.prompts as long as
\* this.prompts is not assigned again and keeps its last value from then on;
\* snap: what load() returned and, once the handler has run, this.prompts as
\* it was when storage.save was called; text: what YAML.stringify returned
Task(pc, op, id, req, now, ref, snap, text, found, pre, out, threw) ==
    [pc |-> pc, op |-> op, id |-> id, req |-> req, now |-> now, ref |-> ref,
     snap |-> snap, text |-> text, found |-> found, pre |-> pre, out |-> out,
     threw |-> threw]

ThisPrompts == [this |-> TRUE, value |-> <<>>]

Detached(m) == [this |-> FALSE, value |-> m]

Idle == Task("idle", "", "", "", 0, ThisPrompts, <<>>, NoFile, FALSE, NoPrompt,
             NoPrompt, FALSE)

\* the calls the handlers are started with
AsyncCalls ==
    { [op |-> "create", id |-> "", req |-> "c1"],
      [op |-> "get", id |-> "k1", req |-> ""],
      [op |-> "get", id |-> "k2", req |-> ""],
      [op |-> "update", id |-> "k1", req |-> "u1"],
      [op |-> "update", id |-> "k2", req |-> "u3"],
      [op |-> "delete", id |-> "k1", req |-> ""],
      [op |-> "delete", id |-> "k3", req |-> ""] }

\* a plausible slip: the handler works on the mapping the data file holds,
\* which it has read again, not on this.prompts
HandlerOnFile(op, m, id, req, now) ==
    LET onFile == FileStorageLoad(dataFile, backups).result
    IN CASE op = "create" -> createPrompt(onFile, CreateRequests[req], id, now)
         [] op = "get" -> getPrompt(onFile, id)
         [] op = "update" -> updatePrompt(onFile, id, UpdateRequests[req], now)
         [] op = "delete" -> deletePrompt(onFile, id)

\* the handler of the call, from ensureInitialized to the call of storage.save
Handler(op, m, id, req, now) ==
    CASE op = "create" -> createPrompt(m, CreateRequests[req], id, now)
      [] op = "get" -> getPrompt(m, id)
      [] op = "update" -> updatePrompt(m, id, UpdateRequests[req], now)
      [] op = "delete" -> deletePrompt(m, id)

\* the clock readings of a handler: only createPrompt and updatePrompt read it
HandlerReadings(op) == IF op \in {"create", "update"} THEN Readings(clock) ELSE {clock}

\* a plausible slip: initialize() looks at the flag again when load() has
\* returned and keeps the mapping of a hydrated service
initializeChecksAgain(loaded) == IF initialized THEN prompts ELSE loaded

\* this.prompts = await this.storage.load()
initialize(loaded) == loaded

\* the handler of task t works on mapping m, which is this.prompts (assigned:
\* initialize() has just assigned it), and either calls storage.save or
\* returns
Run(t, c, m, assigned) ==
    \E now \in HandlerReadings(c.op) :
        LET id == IF c.op = "create" THEN UuidTable[uuidCount + 1] ELSE c.id
            e == Handler(c.op, m, id, c.req, now)
            pre == IF Has(m, id) THEN Lookup(m, id) ELSE NoPrompt
        IN /\ prompts' = e.mem
           /\ clock' = now
           /\ uuidCount' = uuidCount + (IF c.op = "create" THEN 1 ELSE 0)
           /\ calls' = [load |-> calls.load,
                        save |-> calls.save + (IF IsSome(e.saved) THEN 1 ELSE 0)]
           /\ IF IsSome(e.saved)
              THEN /\ tasks' = [u \in TaskIds |->
                                  IF u = t
                                  THEN Task("backup", c.op, id, c.req, now, ThisPrompts,
                                            e.mem, NoFile, e.found, pre, e.ret, FALSE)
                                  ELSE IF assigned /\ tasks[u].ref.this
                                          /\ tasks[u].pc \in {"backup", "stringify"}
                                  THEN [tasks[u] EXCEPT !.ref = Detached(prompts)]
                                  ELSE tasks[u]]
                   /\ last' = last
              ELSE /\ tasks' = [u \in TaskIds |->
                                  IF u = t
                                  THEN Task("done", c.op, id, c.req, now, ThisPrompts,
                                            e.mem, NoFile, e.found, pre, e.ret, FALSE)
                                  ELSE IF assigned /\ tasks[u].ref.this
                                          /\ tasks[u].pc \in {"backup", "stringify"}
                                  THEN [tasks[u] EXCEPT !.ref = Detached(prompts)]
                                  ELSE tasks[u]]
                   /\ last' = Call(c.op, id, c.req, now, FALSE, e.found, pre, e.ret)

Begin(t) ==
    \E c \in AsyncCalls :
        /\ tasks[t].pc = "idle"
        /\ c.op = "create" =>
              Cardinality({ u \in TaskIds : tasks[u].op = "create" }) < MaxCreates
        /\ steps' = steps + 1
        /\ IF initialized
           THEN /\ Run(t, c, prompts, FALSE)
                /\ UNCHANGED <<dataFile, backups, initialized, nUpdates, disk>>
           ELSE /\ tasks' = [tasks EXCEPT ![t] =
                                Task("load", c.op, c.id, c.req, 0, ThisPrompts, <<>>,
                                     NoFile, FALSE, NoPrompt, NoPrompt, FALSE)]
                /\ calls' = [calls EXCEPT !.load = @ + 1]
                /\ UNCHANGED <<dataFile, backups, clock, prompts, initialized, uuidCount,
                               nUpdates, last, disk>>

LoadRead(t) ==
    /\ tasks[t].pc = "load"
    /\ LET loaded == FileStorageLoad(dataFile, backups)
           c == tasks[t]
       IN /\ dataFile' = loaded.file
          /\ backups' = loaded.backups
          /\ IF loaded.threw
             THEN /\ tasks' = [tasks EXCEPT ![t] =
                                  [c EXCEPT !.pc = "done", !.threw = TRUE,
                                            !.out = loaded.error]]
                  /\ last' = Call(c.op, c.id, c.req, 0, TRUE, FALSE, NoPrompt,
                                    loaded.error)
             ELSE /\ tasks' = [tasks EXCEPT ![t] =
                                  [c EXCEPT !.pc = "loaded", !.snap = loaded.result]]
                  /\ last' = last
    /\ UNCHANGED <<clock, prompts, initialized, uuidCount, nUpdates, steps, disk, calls>>

Resume(t) ==
    /\ tasks[t].pc = "loaded"
    /\ Run(t, tasks[t], initialize(tasks[t].snap), TRUE)
    /\ initialized' = TRUE
    /\ UNCHANGED <<dataFile, backups, nUpdates, steps, disk>>

Backup(t) ==
    \E stamp \in Readings(clock) :
        /\ tasks[t].pc = "backup"
        /\ backups' = backup(dataFile, backups, stamp, NoFault).backups
        /\ clock' = stamp
        /\ tasks' = [tasks EXCEPT ![t].pc = "stringify"]
        /\ UNCHANGED <<dataFile, prompts, initialized, uuidCount, nUpdates, steps, last,
                       disk, calls>>

\* a plausible slip: save() is given a copy of the mapping
ReferentAtCall(task) == task.snap

\* the mapping object save() was given, as it is now
Referent(task) == IF task.ref.this THEN prompts ELSE task.ref.value

Stringify(t) ==
    /\ tasks[t].pc = "stringify"
    /\ tasks' = [tasks EXCEPT ![t].pc = "write",
                              ![t].text = YAMLstringify(Referent(tasks[t]))]
    /\ UNCHANGED <<dataFile, backups, clock, prompts, initialized, uuidCount, nUpdates,
                   steps, last, disk, calls>>

Write(t) ==
    /\ tasks[t].pc = "write"
    /\ dataFile' = tasks[t].text
    /\ tasks' = [tasks EXCEPT ![t].pc = "done"]
    /\ last' = Call(tasks[t].op, tasks[t].id, tasks[t].req, tasks[t].now, FALSE,
                      tasks[t].found, tasks[t].pre, tasks[t].out)
    /\ UNCHANGED <<backups, clock, prompts, initialized, uuidCount, nUpdates, steps,
                   disk, calls>>

\* a service that is new, or hydrated by initialize()
InitAsync ==
    /\ dataFile \in {NoFile, YAMLstringify(AsyncMapping)}
    /\ backups = {}
    /\ clock = 1
    /\ initialized \in BOOLEAN
    /\ prompts = IF initialized /\ dataFile.exists THEN AsyncMapping ELSE <<>>
    /\ initialized => dataFile.exists
    /\ uuidCount = 0
    /\ nUpdates = <<>>
    /\ steps = 0
    /\ last = Call("new", "", "", 0, FALSE, FALSE, NoPrompt, NoPrompt)
    /\ disk = "sound"
    /\ calls = [load |-> IF initialized THEN 1 ELSE 0, save |-> 0]
    /\ tasks = [t \in TaskIds |-> Idle]

NextAsync ==
    \E t \in TaskIds :
        \/ Begin(t)
        \/ LoadRead(t)
        \/ Resume(t)
        \/ Backup(t)
        \/ Stringify(t)
        \/ Write(t)

SpecAsync == InitAsync /\ [][NextAsync]_vars


(***************************************************************************)
(* Calls of FileStorage that run at the same time on one directory.        *)
(* load() awaits the test for the data file before it reads the file or    *)
(* calls save({}); save() goes on as in the handlers above:                *)
(*   LoadCall, SaveCall - the call, up to its first await,                 *)
(*   LoadExists   - fileExists has returned: load() reads the file, or     *)
(*                  calls save({}),                                        *)
(*   LoadReadFile - the file is read, parsed and validated; load()         *)
(*                  returns,                                               *)
(*   Backup, Stringify, Write - the steps of save().                       *)
(***************************************************************************)
\* the mappings save() is called with
SaveMappings == {AsyncMapping, <<Entry("k1", StoredA)>>}

LoadCall(t) ==
    /\ tasks[t].pc = "idle"
    /\ tasks' = [tasks EXCEPT ![t] =
                    Task("exists", "load", "", "", 0, Detached(<<>>), <<>>, NoFile,
                         FALSE, NoPrompt, NoPrompt, FALSE)]
    /\ steps' = steps + 1
    /\ UNCHANGED <<dataFile, backups, clock, prompts, initialized, uuidCount, nUpdates,
                   last, disk, calls>>

SaveCall(t) ==
    \E m \in SaveMappings :
        /\ tasks[t].pc = "idle"
        /\ tasks' = [tasks EXCEPT ![t] =
                        Task("backup", "save", "", "", 0, Detached(m), m, NoFile,
                             FALSE, NoPrompt, NoPrompt, FALSE)]
        /\ steps' = steps + 1
        /\ UNCHANGED <<dataFile, backups, clock, prompts, initialized, uuidCount,
                       nUpdates, last, disk, calls>>

LoadExists(t) ==
    /\ tasks[t].pc = "exists"
    /\ tasks' = [tasks EXCEPT ![t].pc = IF dataFile.exists THEN "read" ELSE "backup"]
    /\ UNCHANGED <<dataFile, backups, clock, prompts, initialized, uuidCount, nUpdates,
                   steps, last, disk, calls>>

LoadReadFile(t) ==
    /\ tasks[t].pc = "read"
    /\ LET loaded == FileStorageLoad(dataFile, backups)
       IN /\ tasks' = [tasks EXCEPT ![t].pc = "done", ![t].snap = loaded.result,
                                    ![t].threw = loaded.threw]
          /\ last' = Call("load", "", "", 0, loaded.threw, FALSE, NoPrompt, NoPrompt)
    /\ UNCHANGED <<dataFile, backups, clock, prompts, initialized, uuidCount, nUpdates,
                   steps, disk, calls>>

\* a directory without a data file, or with one that holds records
InitCalls ==
    /\ dataFile \in {NoFile, YAMLstringify(AsyncMapping)}
    /\ backups = {}
    /\ clock = 1
    /\ initialized = FALSE
    /\ prompts = <<>>
    /\ uuidCount = 0
    /\ nUpdates = <<>>
    /\ steps = 0
    /\ last = Call("new", "", "", 0, FALSE, FALSE, NoPrompt, NoPrompt)
    /\ disk = "sound"
    /\ calls = [load |-> 0, save |-> 0]
    /\ tasks = [t \in TaskIds |-> Idle]

NextCalls ==
    \E t \in TaskIds :
        \/ LoadCall(t)
        \/ SaveCall(t)
        \/ LoadExists(t)
        \/ LoadReadFile(t)
        \/ Backup(t)
        \/ Stringify(t)
        \/ Write(t)

SpecCalls == InitCalls /\ [][NextCalls]_vars


(***************************************************************************)
(* Queries.  listPrompts and searchPrompts hydrate the service like every  *)
(* handler and change nothing else.                                        *)
(***************************************************************************)
Reply(op, req, page) ==
    /\ steps' = steps + 1
    /\ IF Hydrated.threw
       THEN /\ last' = Call(op, "", req, 0, TRUE, FALSE, NoPrompt, Hydrated.error)
            /\ UNCHANGED <<dataFile, backups, prompts, initialized>>
       ELSE /\ prompts' = Hydrated.result
            /\ initialized' = TRUE
            /\ dataFile' = Hydrated.file
            /\ backups' = Hydrated.backups
            /\ last' = Call(op, "", req, 0, FALSE, TRUE, NoPrompt, page)
    /\ calls' = [calls EXCEPT !.load = @ + (IF initialized THEN 0 ELSE 1)]
    /\ UNCHANGED <<clock, uuidCount, nUpdates, disk, tasks>>

Answer(op, req, page) ==
    /\ steps < MaxQueries
    /\ Reply(op, req, page)

ListPrompts ==
    \E filters \in FilterInputs :
        Answer("list", filters, listPrompts(Hydrated.result, filters))

\* (searchPrompts does not read filters.title; pages are taken of the
\* results without a category filter)
SearchPrompts ==
    \E query \in QueryInputs, filters \in FilterInputs :
        /\ ~IsSome(filters.title)
        /\ (IsSome(filters.limit) \/ IsSome(filters.offset)) => ~IsSome(filters.category)
        /\ Answer("search", [query |-> query, filters |-> filters],
                  searchPrompts(Hydrated.result, query, filters))

GetCategories == Answer("categories", "", getCategories(Hydrated.result))

GetTags == Answer("tags", "", getTags(Hydrated.result))

GetStats == Answer("stats", "", getStats(Hydrated.result))

\* await service.initialize() before the queries
InitializeService ==
    /\ ~initialized
    /\ ~Hydrated.threw
    /\ prompts' = Hydrated.result
    /\ dataFile' = Hydrated.file
    /\ backups' = Hydrated.backups
    /\ initialized' = TRUE
    /\ last' = Call("initialize", "", "", 0, FALSE, FALSE, NoPrompt, NoPrompt)
    /\ calls' = [calls EXCEPT !.load = @ + 1]
    /\ UNCHANGED <<clock, uuidCount, nUpdates, steps, disk, tasks>>

InitQuery ==
    /\ dataFile \in QueryFiles
    /\ backups = {}
    /\ clock = 1
    /\ prompts = <<>>
    /\ initialized = FALSE
    /\ uuidCount = 0
    /\ nUpdates = <<>>
    /\ steps = 0
    /\ last = Call("new", "", "", 0, FALSE, FALSE, NoPrompt, NoPrompt)
    /\ disk = "sound"
    /\ calls = NoCalls
    /\ tasks = <<>>

NextQuery ==
    \/ InitializeService
    \/ ListPrompts
    \/ SearchPrompts
    \/ GetCategories
    \/ GetTags
    \/ GetStats

\* a service that is only queried
SpecQuery == InitQuery /\ [][NextQuery]_vars

InitRank ==
    /\ dataFile \in {QueryFileA, QueryFileE}
    /\ backups = {}
    /\ clock = 1
    /\ prompts = <<>>
    /\ initialized = FALSE
    /\ uuidCount = 0
    /\ nUpdates = <<>>
    /\ steps = 0
    /\ last = Call("new", "", "", 0, FALSE, FALSE, NoPrompt, NoPrompt)
    /\ disk = "sound"
    /\ calls = NoCalls
    /\ tasks = <<>>

\* the queries over records that match a query in different properties
SpecRank == InitRank /\ [][NextQuery]_vars

\* a query between the calls that change records: each of the five, with
\* one argument each
ReadOnlyCall ==
    /\ steps < StepLimit
    /\ \/ Reply("list", SearchFilters(None, None, None, None, None),
                 listPrompts(Hydrated.result,
                             SearchFilters(None, None, None, None, None)))
       \/ Reply("search",
                 [query |-> <<"a">>,
                  filters |-> SearchFilters(None, None, None, None, None)],
                 searchPrompts(Hydrated.result, <<"a">>,
                               SearchFilters(None, None, None, None, None)))
       \/ Reply("categories", "", getCategories(Hydrated.result))
       \/ Reply("tags", "", getTags(Hydrated.result))
       \/ Reply("stats", "", getStats(Hydrated.result))

InitUsage ==
    /\ dataFile = FileB
    /\ backups = {}
    /\ clock = 1
    /\ prompts = <<>>
    /\ initialized = FALSE
    /\ uuidCount = 0
    /\ nUpdates = <<>>
    /\ steps = 0
    /\ last = Call("new", "", "", 0, FALSE, FALSE, NoPrompt, NoPrompt)
    /\ disk = "sound"
    /\ calls = NoCalls
    /\ tasks = <<>>

NextUsage ==
    \/ Initialize
    \/ CreatePrompt
    \/ GetPrompt
    \/ UpdatePrompt
    \/ DeletePrompt
    \/ ReadOnlyCall

\* a service whose records are changed and queried
SpecUsage == InitUsage /\ [][NextUsage]_vars


(***************************************************************************)
(* The HTTP boundary: the routes of createPromptRoutes, each with its      *)
(* validation middleware before the controller.  A path parameter is the   *)
(* text the client wrote; Written gives the text of each id of the model.  *)
(***************************************************************************)
Repeat(c, n) == [i \in 1..n |-> c]

\* the shape of the values randomUUID() returns, filled with one character
UuidOf(c) ==
    Repeat(c, 8) \o <<"-">> \o Repeat(c, 4) \o <<"-", "4">> \o Repeat(c, 3)
        \o <<"-", "8">> \o Repeat(c, 3) \o <<"-">> \o Repeat(c, 12)

HexChars ==
    Range(Digits) \cup {"a", "b", "c", "d", "e", "f", "A", "B", "C", "D", "E", "F"}

\* hexadecimal characters from s[i] on, n of them
IsHexRun(s, i, n) == i + n - 1 <= Len(s) /\ \A j \in i..(i + n - 1) : s[j] \in HexChars

\* the groups of a GUID after the first: each may be preceded by the
\* separator that followed the first group
RECURSIVE GuidGroups(_, _, _, _)
GuidGroups(s, i, sep, groups) ==
    IF groups = <<>> THEN i = Len(s) + 1
    ELSE LET from == IF sep # "" /\ i <= Len(s) /\ s[i] = sep THEN i + 1 ELSE i
         IN /\ IsHexRun(s, from, Head(groups))
            /\ GuidGroups(s, from + Head(groups), sep, Tail(groups))

GuidBrackets == <<<<"{", "}">>, <<"[", "]">>, <<"(", ")">>>>

\* Joi.string().uuid(): 8-4-4-4-12 hexadecimal characters, separated by '-'
\* or ':' or not at all, bare or inside one matching pair of brackets
GuidBody(s) ==
    /\ IsHexRun(s, 1, 8)
    /\ LET sep == IF Len(s) >= 9 /\ s[9] \in {"-", ":"} THEN s[9] ELSE ""
       IN GuidGroups(s, IF sep = "" THEN 9 ELSE 10, sep, <<4, 4, 4, 12>>)

uuid(s) ==
    \/ GuidBody(s)
    \/ /\ Len(s) >= 2
       /\ <<s[1], s[Len(s)]>> \in Range(GuidBrackets)
       /\ GuidBody(SubSeq(s, 2, Len(s) - 1))

\* Joi.string(): a string that is not empty, then .min and .max
JoiString(s, min, max) == Len(s) >= 1 /\ Len(s) >= min /\ Len(s) <= max

\* an optional property: absent, or valid
JoiOptional(o, min, max) == IsSome(o) => JoiString(Val(o), min, max)

\* Joi.array().items(Joi.string().min(1).max(50)).max(n)
JoiTags(tags, n) == Len(tags) <= n /\ \A i \in 1..Len(tags) : JoiString(tags[i], 1, 50)

\* Joi.string().pattern(/^\d+$/)
JoiDigits(s) == Len(s) >= 1 /\ \A i \in 1..Len(s) : IsDigit(s[i])

\* schema.validate(x, {abortEarly: false, stripUnknown: true})
Validation(error, value) == [error |-> error, value |-> value]

\* a plausible slip: any string is taken for an id
idParamSchemaAnyString(params) == Validation(FALSE, params)

idParamSchema(params) == Validation(~uuid(params.id), params)

\* the body of POST /: every property may be missing (the variables given
\* are well-formed)
createPromptSchema(body) ==
    Validation(~ /\ IsSome(body.title) /\ JoiString(Val(body.title), 1, 200)
                 /\ IsSome(body.content) /\ JoiString(Val(body.content), 1, 50000)
                 /\ JoiOptional(body.description, 0, 1000)
                 /\ IsSome(body.tags) /\ JoiTags(Val(body.tags), 20)
                 /\ IsSome(body.category) /\ JoiString(Val(body.category), 1, 100)
                 /\ IsSome(body.variables) => Len(Val(body.variables)) <= 20
                 /\ JoiOptional(body.author, 0, 100),
               body)

updatePromptSchema(body) ==
    Validation(~ /\ JoiOptional(body.title, 1, 200)
                 /\ JoiOptional(body.content, 1, 50000)
                 /\ JoiOptional(body.description, 0, 1000)
                 /\ IsSome(body.tags) => JoiTags(Val(body.tags), 20)
                 /\ JoiOptional(body.category, 1, 100)
                 /\ IsSome(body.variables) => Len(Val(body.variables)) <= 20
                 /\ \E f \in DOMAIN body : IsSome(body[f]),
               body)

\* String.prototype.trim, of the space character
RECURSIVE trim(_)
trim(s) ==
    IF Len(s) > 0 /\ Head(s) = " " THEN trim(Tail(s))
    ELSE IF Len(s) > 0 /\ s[Len(s)] = " " THEN trim(SubSeq(s, 1, Len(s) - 1))
    ELSE s

\* String.prototype.split(',')
RECURSIVE SplitCommaAcc(_, _, _, _)
SplitCommaAcc(s, i, cur, acc) ==
    IF i > Len(s) THEN Append(acc, cur)
    ELSE IF s[i] = "," THEN SplitCommaAcc(s, i + 1, <<>>, Append(acc, cur))
    ELSE SplitCommaAcc(s, i + 1, Append(cur, s[i]), acc)

\* validateQuery, before the schema: tags written as one string become an
\* array (an empty string is left as it is)
splitTags(query) ==
    IF IsSome(query.tags) /\ Len(Val(query.tags)) > 0
    THEN LET parts == SplitCommaAcc(Val(query.tags), 1, <<>>, <<>>)
         IN [query EXCEPT !.tags = Some([i \in 1..Len(parts) |-> trim(parts[i])])]
    ELSE query

\* Joi.alternatives().try(Joi.string(), Joi.array().items(Joi.string())) of
\* the tags after splitTags: an array of strings, or the empty string
JoiQueryTags(query) ==
    IsSome(query.tags) =>
        /\ Len(Val(query.tags)) > 0
        /\ \A i \in 1..Len(Val(query.tags)) : Len(Val(query.tags)[i]) >= 1

\* GET /: tags, category, title, limit and offset as the client wrote them
Query(q, tags, category, title, limit, offset) ==
    [q |-> q, tags |-> tags, category |-> category, title |-> title,
     limit |-> limit, offset |-> offset]

listPromptsQuerySchema(query) ==
    Validation(~ /\ JoiQueryTags(query)
                 /\ IsSome(query.category) => Len(Val(query.category)) >= 1
                 /\ IsSome(query.title) => Len(Val(query.title)) >= 1
                 /\ IsSome(query.limit) => JoiDigits(Val(query.limit))
                 /\ IsSome(query.offset) => JoiDigits(Val(query.offset)),
               [query EXCEPT !.q = None])

searchPromptsQuerySchema(query) ==
    Validation(~ /\ IsSome(query.q) /\ Len(Val(query.q)) >= 1
                 /\ JoiQueryTags(query)
                 /\ IsSome(query.category) => Len(Val(query.category)) >= 1
                 /\ IsSome(query.limit) => JoiDigits(Val(query.limit))
                 /\ IsSome(query.offset) => JoiDigits(Val(query.offset)),
               [query EXCEPT !.title = None])

\* the text of each id: the ids randomUUID() returns and one key of the data
\* file are UUIDs, the other key was written by hand; then texts that are no
\* key: a UUID in braces, one that lacks a character, one with a letter
\* beyond f
Written ==
    [k1 |-> UuidOf("a"), k2 |-> <<"k", "2">>,
     u1 |-> UuidOf("1"), u2 |-> UuidOf("2"), u3 |-> UuidOf("3"),
     braces |-> <<"{">> \o UuidOf("c") \o <<"}">>,
     short |-> SubSeq(UuidOf("b"), 1, 35),
     nothex |-> UuidOf("g")]

PathInputs(n) == IdInputs(n) \cup {"braces", "short", "nothex"}

\* the body a client sends for a CreatePromptRequest
CreateBody(r) ==
    [r EXCEPT !.title = Some(@), !.content = Some(@), !.tags = Some(@),
              !.category = Some(@)]

\* bodies of POST /: a request with an empty author, one with a title of the
\* greatest length allowed; then a missing title, a missing category, a
\* title and a list of tags beyond their bounds
CreateBodies ==
    [c3 |-> CreateBody(CreateRequests.c3),
     c4 |-> [CreateBody(CreateRequests.c1) EXCEPT !.title = Some(Repeat("t", 200))],
     m1 |-> [CreateBody(CreateRequests.c1) EXCEPT !.title = None],
     m2 |-> [CreateBody(CreateRequests.c1) EXCEPT !.category = None],
     m3 |-> [CreateBody(CreateRequests.c1) EXCEPT !.title = Some(Repeat("t", 201))],
     m4 |-> [CreateBody(CreateRequests.c1) EXCEPT !.tags = Some(Repeat(<<"a">>, 21))]]

\* bodies of PUT /:id: two of the requests (the second with an empty
\* description) and a body with no property
UpdateBodies ==
    [u1 |-> UpdateRequests.u1, u3 |-> UpdateRequests.u3,
     e0 |-> UpdateRequest(None, None, None, None, None, None)]

\* queries of GET /: tags in one string with a page, a property the schema
\* does not know with a limit of 0; then a limit that is a word, one with a
\* sign, an empty one, an offset with an exponent, a tag that is empty; and
\* a limit beyond the page size the API documents
ListQueries ==
    { Query(None, Some(<<"a", ",", " ", "B">>), None, None, Some(<<"1">>), Some(<<"1">>)),
      Query(Some(<<"a">>), None, None, None, Some(<<"0">>), None),
      Query(None, None, None, None, Some(<<"1", "0", "1">>), None),
      Query(None, None, None, None, Some(<<"x">>), None),
      Query(None, None, None, None, Some(<<"-", "1">>), None),
      Query(None, None, None, None, Some(<<>>), None),
      Query(None, None, None, None, Some(<<"1">>), Some(<<"1", "e", "1">>)),
      Query(None, Some(<<"a", ",">>), None, None, None, None) }

\* queries of GET /search: a query with a limit, one with a property the
\* schema does not know; then no q, an empty q, a limit that ends in a letter
SearchQueries ==
    { Query(Some(<<"a">>), None, None, None, Some(<<"1">>), None),
      Query(Some(<<"b">>), None, None, Some(<<"a">>), None, None),
      Query(None, None, None, None, None, None),
      Query(Some(<<>>), None, None, None, None, None),
      Query(Some(<<"a">>), None, None, None, Some(<<"1", "x">>), None) }

\* the answer of the validation middleware
ValidationError == [status |-> 400, success |-> FALSE, error |-> "Validation error"]

\* res.status(400).json(response); return: next() is not called.  last.op
\* is the route, last.req the body or the query of the request.
Reject(route, id, req) ==
    /\ last' = Call(route, id, req, 0, FALSE, FALSE, NoPrompt, ValidationError)
    /\ UNCHANGED <<dataFile, backups, clock, prompts, initialized, uuidCount, nUpdates,
                   steps, disk, calls, tasks>>

\* const createRequest: CreatePromptRequest = req.body
createRequest(body) ==
    CreateRequest(Val(body.title), Val(body.content), body.description,
                  Val(body.tags), Val(body.category), body.variables, body.author)

\* a property of req.query that is set (a string that is not empty, or an
\* array)
Given(o) == IsSome(o) /\ Len(Val(o)) > 0

\* the filters PromptController.listPrompts builds from req.query
listFilters(query) ==
    SearchFilters(IF Given(query.tags) THEN query.tags ELSE None,
                  IF Given(query.category) THEN query.category ELSE None,
                  IF Given(query.title) THEN query.title ELSE None,
                  IF Given(query.limit) THEN Some(parseInt(Val(query.limit)).val) ELSE None,
                  IF Given(query.offset) THEN Some(parseInt(Val(query.offset)).val) ELSE None)

\* the filters PromptController.searchPrompts builds: no title
searchFilters(query) == [listFilters(query) EXCEPT !.title = None]

\* POST /
PostPrompt ==
    \E b \in DOMAIN CreateBodies :
        LET checked == createPromptSchema(CreateBodies[b])
        IN IF checked.error
           THEN Reject("POST /", "", b)
           ELSE \E now \in Readings(clock) :
                    /\ uuidCount < MaxCreates
                    /\ steps < MaxRequests
                    /\ LET id == UuidTable[uuidCount + 1]
                       IN /\ Complete("POST /", id, b, now,
                                      createPrompt(Hydrated.result,
                                                   createRequest(checked.value), id, now))
                          /\ nUpdates' = Put(nUpdates, id, 0)
                    /\ uuidCount' = uuidCount + 1

\* GET /:id
GetPromptById ==
    \E id \in PathInputs(uuidCount) :
        IF idParamSchema([id |-> Written[id]]).error
        THEN Reject("GET /:id", id, "")
        ELSE /\ steps < MaxRequests
             /\ Complete("GET /:id", id, "", 0, getPrompt(Hydrated.result, id))
             /\ UNCHANGED <<uuidCount, nUpdates>>

\* PUT /:id: validateParams, then validateBody
PutPrompt ==
    \E id \in PathInputs(uuidCount), b \in DOMAIN UpdateBodies :
        LET checked == updatePromptSchema(UpdateBodies[b])
        IN IF idParamSchema([id |-> Written[id]]).error \/ checked.error
           THEN Reject("PUT /:id", id, b)
           ELSE \E now \in Readings(clock) :
                    /\ steps < MaxRequests
                    /\ now = clock \/ Has(Hydrated.result, id)
                    /\ Complete("PUT /:id", id, b, now,
                                updatePrompt(Hydrated.result, id, checked.value, now))
                    /\ nUpdates' = IF Has(Hydrated.result, id) /\ Has(nUpdates, id)
                                   THEN Put(nUpdates, id, Lookup(nUpdates, id) + 1)
                                   ELSE nUpdates
                    /\ UNCHANGED uuidCount

\* DELETE /:id
DeletePromptById ==
    \E id \in PathInputs(uuidCount) :
        IF idParamSchema([id |-> Written[id]]).error
        THEN Reject("DELETE /:id", id, "")
        ELSE /\ steps < MaxRequests
             /\ Complete("DELETE /:id", id, "", 0, deletePrompt(Hydrated.result, id))
             /\ nUpdates' = Remove(nUpdates, id)
             /\ UNCHANGED uuidCount

\* GET /
GetPrompts ==
    \E query \in ListQueries :
        LET checked == listPromptsQuerySchema(splitTags(query))
        IN IF checked.error
           THEN Reject("GET /", "", query)
           ELSE /\ steps < MaxRequests
                /\ Reply("GET /", query,
                         listPrompts(Hydrated.result, listFilters(checked.value)))

\* GET /search
GetSearch ==
    \E query \in SearchQueries :
        LET checked == searchPromptsQuerySchema(splitTags(query))
        IN IF checked.error
           THEN Reject("GET /search", "", query)
           ELSE /\ steps < MaxRequests
                /\ Reply("GET /search", query,
                         searchPrompts(Hydrated.result, Val(checked.value.q),
                                       searchFilters(checked.value)))

\* createApp: the service is initialized before the routes are mounted
InitHttp ==
    \E file \in {FileB} :
        LET loaded == FileStorageLoad(file, {})
        IN /\ dataFile = loaded.file
           /\ backups = loaded.backups
           /\ clock = 1
           /\ prompts = loaded.result
           /\ initialized = TRUE
           /\ uuidCount = 0
           /\ nUpdates = <<>>
           /\ steps = 0
           /\ last = Call("new", "", "", 0, FALSE, FALSE, NoPrompt, NoPrompt)
           /\ disk = "sound"
           /\ calls = [load |-> 1, save |-> 0]
           /\ tasks = <<>>

NextHttp ==
    \/ PostPrompt
    \/ GetPromptById
    \/ PutPrompt
    \/ DeletePromptById
    \/ GetPrompts
    \/ GetSearch

\* the service behind its routes
SpecHttp == InitHttp /\ [][NextHttp]_vars


(***************************************************************************)
(* FileStorage on its own: load() and save() called one after the other,   *)
(* as its tests call them.  last.req is the mapping given to save,         *)
(* last.now the clock reading of its backup, last.out what load returned   *)
(* (the Error when it threw).                                              *)
(***************************************************************************)
\* values of a root mapping that isValidPrompt has to tell apart: one
\* property of the wrong type, a value that is no object, and a metadata
\* that is an array
EntryValues ==
    { YamlValue(TRUE, [GoodTypes EXCEPT ![f] = t], StoredB) :
        f \in {"id", "title", "content", "tags", "category", "metadata"},
        t \in {"undefined", "null", "number", "object"} }
    \cup { YamlValue(TRUE, [GoodTypes EXCEPT !.metadata = "array"], StoredB),
           YamlValue(FALSE, GoodTypes, NoPrompt) }

\* a value between two well-formed records
MixedFile(value) ==
    Document(TRUE, "map",
             <<Entry("k1", YamlValue(TRUE, GoodTypes, StoredA)),
               Entry("k2", value),
               Entry("k3", YamlValue(TRUE, GoodTypes, StoredC))>>)

\* documents whose root is no mapping: empty, a scalar, a sequence
OtherRoots ==
    { Document(TRUE, "null", <<>>),
      Document(TRUE, "scalar", <<>>),
      Document(TRUE, "seq", <<Entry("0", YamlValue(TRUE, GoodTypes, StoredA)),
                              Entry("1", YamlValue(FALSE, GoodTypes, NoPrompt))>>) }

StorageFiles == InitFiles \cup { MixedFile(v) : v \in EntryValues } \cup OtherRoots

\* mappings given to save: every record passes isValidPrompt; optional
\* properties present and missing, a key that is not the record's id
SaveInputs ==
    { <<>>,
      <<Entry("k1", StoredA)>>,
      <<Entry("k1", StoredB), Entry("k2", StoredC)>>,
      <<Entry("k3", QueryC), Entry("k1", QueryA), Entry("k2", QueryB)>> }

StorageLoad ==
    /\ steps < StepLimit
    /\ steps' = steps + 1
    /\ LET loaded == FileStorageLoad(dataFile, backups)
       IN /\ dataFile' = loaded.file
          /\ backups' = loaded.backups
          /\ last' = Call("load", "", "", 0, loaded.threw, FALSE, NoPrompt,
                            IF loaded.threw THEN loaded.error ELSE loaded.result)
    /\ UNCHANGED <<clock, prompts, initialized, uuidCount, nUpdates, disk, calls, tasks>>

\* last.found tells whether the data file was there, last.pre is the fault
\* the call met, last.out the Error when it threw
StorageSave ==
    \E m \in SaveInputs, stamp \in Readings(clock), fault \in Faults(disk) :
        /\ steps < StepLimit
        /\ steps' = steps + 1
        /\ LET saved == FileStorageSave(dataFile, backups, m, stamp, fault)
           IN /\ dataFile' = saved.file
              /\ backups' = saved.backups
              /\ last' = Call("save", "", m, stamp, saved.threw, dataFile.exists, fault,
                                IF saved.threw THEN saved.error ELSE NoPrompt)
        /\ clock' = stamp
        /\ UNCHANGED <<prompts, initialized, uuidCount, nUpdates, disk, calls, tasks>>

\* await storage.backup()
StorageBackup ==
    \E stamp \in Readings(clock), fault \in Faults(disk) :
        /\ steps < StepLimit
        /\ steps' = steps + 1
        /\ LET copied == backup(dataFile, backups, stamp, fault)
           IN /\ backups' = copied.backups
              /\ last' = Call("backup", "", "", stamp, copied.threw, dataFile.exists, fault,
                                IF copied.threw THEN copied.error ELSE NoPrompt)
        /\ clock' = stamp
        /\ UNCHANGED <<dataFile, prompts, initialized, uuidCount, nUpdates, disk, calls, tasks>>

InitStorage ==
    /\ dataFile \in StorageFiles
    /\ backups \in InitBackups
    /\ clock = 1
    /\ prompts = <<>>
    /\ initialized = FALSE
    /\ uuidCount = 0
    /\ nUpdates = <<>>
    /\ steps = 0
    /\ last = Call("new", "", "", 0, FALSE, FALSE, NoPrompt, NoPrompt)
    /\ disk = "sound"
    /\ calls = NoCalls
    /\ tasks = <<>>

NextStorage ==
    \/ StorageLoad
    \/ StorageSave
    \/ StorageBackup

SpecStorage == InitStorage /\ [][NextStorage]_vars

\* FileStorage on a file system whose calls can fail
InitDisk ==
    /\ dataFile \in {NoFile, FileA, FileB}
    /\ backups \in InitBackups
    /\ clock = 1
    /\ prompts = <<>>
    /\ initialized = FALSE
    /\ uuidCount = 0
    /\ nUpdates = <<>>
    /\ steps = 0
    /\ last = Call("new", "", "", 0, FALSE, FALSE, NoPrompt, NoPrompt)
    /\ disk = "failing"
    /\ calls = NoCalls
    /\ tasks = <<>>

SpecDisk == InitDisk /\ [][NextStorage]_vars

\* save() called again and again, each call awaited before the next: the
\* mapping of the k-th call holds one record whose usage is k
TurnMapping(k) == <<Entry("k1", [StoredA EXCEPT !.metadata.usage = Some(k)])>>

\* the k-th save; its backup reads the clock in the millisecond of the
\* reading before or in a later one
SaveInTurn ==
    \E stamp \in {clock, clock + 1} :
        /\ steps < SaveRuns
        /\ steps' = steps + 1
        /\ LET m == TurnMapping(steps + 1)
               saved == FileStorageSave(dataFile, backups, m, stamp, NoFault)
           IN /\ dataFile' = saved.file
              /\ backups' = saved.backups
              /\ last' = Call("save", "", m, stamp, saved.threw, dataFile.exists, NoFault,
                                NoPrompt)
        /\ clock' = stamp
        /\ UNCHANGED <<prompts, initialized, uuidCount, nUpdates, disk, calls, tasks>>

InitSaves ==
    /\ dataFile = FileA
    /\ backups = {}
    /\ clock = 1
    /\ prompts = <<>>
    /\ initialized = FALSE
    /\ uuidCount = 0
    /\ nUpdates = <<>>
    /\ steps = 0
    /\ last = Call("new", "", "", 0, FALSE, FALSE, NoPrompt, NoPrompt)
    /\ disk = "sound"
    /\ calls = NoCalls
    /\ tasks = <<>>

SpecSaves == InitSaves /\ [][SaveInTurn]_vars


(***************************************************************************)
(* Properties.                                                             *)
(***************************************************************************)
NoDuplicates(xs) == \A i, j \in 1..Len(xs) : i # j => xs[i] # xs[j]

FirstIndex(xs, v) == CHOOSE i \in 1..Len(xs) : xs[i] = v /\ \A j \in 1..(i - 1) : xs[j] # v

\* q occurs in s when the case of letters is ignored
ContainsCI(s, q) ==
    \E i \in 0..(Len(s) - Len(q)) :
        \A j \in 1..Len(q) : LowerChar(s[i + j]) = LowerChar(q[j])

\* the text "major.minor.patch"
Semver(major, minor, patch) ==
    Decimal(major) \o <<".">> \o Decimal(minor) \o <<".">> \o Decimal(patch)

\* the data file holds exactly the entries of mapping m, in order
FileHolds(file, m) ==
    /\ file.exists
    /\ file.parses
    /\ file.root = "map"
    /\ Len(file.entries) = Len(m)
    /\ \A i \in 1..Len(m) :
          /\ file.entries[i].key = m[i].key
          /\ isValidPrompt(file.entries[i].value)
          /\ file.entries[i].value.data = m[i].value

\* the record the data file holds under a key
Persisted(file, key) ==
    file.entries[CHOOSE i \in 1..Len(file.entries) : file.entries[i].key = key].value.data

\* C1: after a completed createPrompt, or a completed getPrompt, updatePrompt
\* or deletePrompt of an existing id, the data file holds exactly the
\* in-memory mapping.
C1_WriteThrough ==
    (last.op \in {"create", "get", "update", "delete"} /\ ~last.threw /\ last.found)
        => FileHolds(dataFile, prompts)

\* a get of the only valid record of a file that also held a rejected entry
C1_Witness ==
    /\ last.op = "get"
    /\ last.found
    /\ last.out.metadata.usage = Some(6)
    /\ Len(dataFile.entries) = 1
    /\ FileHolds(dataFile, prompts)

\* C2: a getPrompt of an existing id returns the record with its usage one
\* higher than before the call (a record that has no usage counts as 0), and
\* the in-memory and the persisted record hold that same usage on return.
C2_GetIncrementsUsage ==
    (last.op = "get" /\ last.found) =>
        LET u == IF IsSome(last.pre.metadata.usage)
                 THEN Val(last.pre.metadata.usage) ELSE 0
        IN /\ last.out.metadata.usage = Some(u + 1)
           /\ Has(prompts, last.id)
           /\ Lookup(prompts, last.id).metadata.usage = Some(u + 1)
           /\ FileHolds(dataFile, prompts)
           /\ Persisted(dataFile, last.id).metadata.usage = Some(u + 1)

\* the third of three successive gets of a record stored with usage 5
C2_Witness ==
    /\ last.op = "get"
    /\ last.found
    /\ steps = 3
    /\ last.pre.metadata.usage = Some(7)
    /\ last.out.metadata.usage = Some(8)
    /\ Persisted(dataFile, last.id).metadata.usage = Some(8)

\* C3: an updatePrompt of an existing id gives title, content, description,
\* category and variables the request's value when the request carries one and
\* the previous value when it does not, changes tags only when the request
\* carries tags, and leaves id, createdAt, author and usage as they were.
C3_UpdateFrame ==
    (last.op = "update" /\ last.found) =>
        LET r == UpdateRequests[last.req]
            pre == last.pre
            out == last.out
        IN /\ out.title = IF IsSome(r.title) THEN Val(r.title) ELSE pre.title
           /\ out.content = IF IsSome(r.content) THEN Val(r.content) ELSE pre.content
           /\ out.description =
                 IF IsSome(r.description) THEN r.description ELSE pre.description
           /\ out.category =
                 IF IsSome(r.category) THEN Val(r.category) ELSE pre.category
           /\ out.variables =
                 IF IsSome(r.variables) THEN r.variables ELSE pre.variables
           /\ IF IsSome(r.tags) THEN Range(out.tags) = Range(Val(r.tags))
              ELSE out.tags = pre.tags
           /\ out.id = pre.id
           /\ out.metadata.createdAt = pre.metadata.createdAt
           /\ out.metadata.author = pre.metadata.author
           /\ out.metadata.usage = pre.metadata.usage
           /\ Has(prompts, last.id)
           /\ Lookup(prompts, last.id) = out

\* an update of the title alone on a record that has a description
C3_Witness ==
    /\ last.op = "update"
    /\ last.found
    /\ last.req = "u1"
    /\ IsSome(last.pre.description)
    /\ last.out.title = <<"n">>
    /\ last.out.title # last.pre.title
    /\ last.out.content = last.pre.content

\* C4: an updatePrompt of an existing id turns version "major.minor.patch"
\* into "major.minor.(patch+1)" and sets updatedAt to the time of the call; a
\* record made by createPrompt and updated k times has version "1.0.k".
C4_PatchIncrement ==
    /\ (last.op = "update" /\ last.found) =>
          /\ \E major \in 0..3, minor \in 0..3, patch \in 0..13 :
                /\ last.pre.metadata.version = Semver(major, minor, patch)
                /\ last.out.metadata.version = Semver(major, minor, patch + 1)
          /\ last.out.metadata.updatedAt = last.now
    /\ \A i \in 1..Len(nUpdates) :
          Has(prompts, nUpdates[i].key) =>
              Lookup(prompts, nUpdates[i].key).metadata.version
                  = Semver(1, 0, nUpdates[i].value)

\* "2.3.9" becomes "2.3.10"
C4_Witness ==
    /\ last.op = "update"
    /\ last.found
    /\ last.pre.metadata.version = <<"2", ".", "3", ".", "9">>
    /\ last.out.metadata.version = <<"2", ".", "3", ".", "1", "0">>

\* C5: the record createPrompt returns has version "1.0.0", usage 0, createdAt
\* equal to updatedAt, the request's variables (the empty sequence when the
\* request has none) and an author only if the request has one.
C5_CreatedRecord ==
    (last.op = "create" /\ ~last.threw) =>
        LET r == CreateRequests[last.req]
            out == last.out
        IN /\ out.metadata.version = <<"1", ".", "0", ".", "0">>
           /\ out.metadata.usage = Some(0)
           /\ out.metadata.createdAt = out.metadata.updatedAt
           /\ out.metadata.createdAt = last.now
           /\ out.variables = IF IsSome(r.variables) THEN r.variables ELSE Some(<<>>)
           /\ IsSome(out.metadata.author) =>
                 (IsSome(r.author) /\ out.metadata.author = r.author)
           /\ Has(prompts, last.id)
           /\ Lookup(prompts, last.id) = out

\* a request with an author and variables
C5_Witness ==
    /\ last.op = "create"
    /\ ~last.threw
    /\ last.req = "c2"
    /\ last.out.metadata.author = Some(<<"m">>)
    /\ last.out.variables = Some(<<"v1", "v2">>)

\* stored is given without its repeated values, first occurrences in order
Deduplicated(given, stored) ==
    /\ NoDuplicates(stored)
    /\ Range(stored) = Range(given)
    /\ Len(stored) = Cardinality(Range(given))
    /\ \A i, j \in 1..Len(stored) :
          i < j => FirstIndex(given, stored[i]) < FirstIndex(given, stored[j])

\* C7: createPrompt, and updatePrompt when the request carries tags, store
\* the request's tags without repeated values (compared exactly, so that "a"
\* and "A" differ), the first occurrence of each value kept in order.
C7_TagsDeduplicated ==
    /\ (last.op = "create" /\ ~last.threw) =>
          /\ Deduplicated(CreateRequests[last.req].tags, last.out.tags)
          /\ Lookup(prompts, last.id).tags = last.out.tags
    /\ (last.op = "update" /\ last.found /\ IsSome(UpdateRequests[last.req].tags)) =>
          /\ Deduplicated(Val(UpdateRequests[last.req].tags), last.out.tags)
          /\ Lookup(prompts, last.id).tags = last.out.tags

\* ["a", "b", "a"] is stored as ["a", "b"]
C7_Witness ==
    /\ last.op = "create"
    /\ ~last.threw
    /\ CreateRequests[last.req].tags = <<<<"a">>, <<"b">>, <<"a">>>>
    /\ Lookup(prompts, last.id).tags = <<<<"a">>, <<"b">>>>

\* C8: every record of the in-memory mapping has tags without repeated
\* values, whatever accepted file the service was hydrated from.
C8_TagsDistinct ==
    \A i \in 1..Len(prompts) : NoDuplicates(prompts[i].value.tags)

\* C9: a deletePrompt of an existing id removes that entry and no other,
\* changes no other record and persists the result; afterwards getPrompt of
\* the id finds nothing and no listPrompts or searchPrompts result holds a
\* record with that id.
C9_DeleteRemovesId ==
    [][(last'.op = "delete" /\ last'.found) =>
          LET id == last'.id
              before == Hydrated.result
          IN /\ Has(before, id)
             /\ Keys(prompts') = Keys(before) \ {id}
             /\ \A k \in Keys(prompts') : Lookup(prompts', k) = Lookup(before, k)
             /\ FileHolds(dataFile', prompts')
             /\ ~getPrompt(prompts', id).found
             /\ \A f \in FilterInputs :
                   \A n \in 1..Len(listPrompts(prompts', f).items) :
                       listPrompts(prompts', f).items[n].id # id
             /\ \A q \in QueryInputs, f \in FilterInputs :
                   \A n \in 1..Len(searchPrompts(prompts', q, f).items) :
                       searchPrompts(prompts', q, f).items[n].id # id
      ]_vars

\* record r passes filters f: each filter that is given holds
Retained(r, f) ==
    /\ IsSome(f.category) => ContainsCI(r.category, Val(f.category))
    /\ (IsSome(f.tags) /\ Len(Val(f.tags)) > 0) =>
          \E t \in Range(r.tags), q \in Range(Val(f.tags)) : ContainsCI(t, q)
    /\ IsSome(f.title) =>
          \/ ContainsCI(r.title, Val(f.title))
          \/ IsSome(r.description) /\ ContainsCI(Val(r.description), Val(f.title))

\* C10: listPrompts retains a record iff every filter that is given holds of
\* it: total counts the retained records, every item is one of them, and with
\* the default page every one of them is an item.
C10_ListFilters ==
    (last.op = "list" /\ ~last.threw) =>
        LET f == last.req
            page == last.out
            kept == { i \in 1..Len(prompts) : Retained(prompts[i].value, f) }
        IN /\ page.total = Cardinality(kept)
           /\ \A n \in 1..Len(page.items) :
                 \E i \in kept : page.items[n] = prompts[i].value
           /\ (~IsSome(f.limit) /\ ~IsSome(f.offset)) =>
                 /\ Len(page.items) = Cardinality(kept)
                 /\ \A i \in kept :
                       \E n \in 1..Len(page.items) : page.items[n] = prompts[i].value

\* three filters together keep one record of three
C10_Witness ==
    /\ last.op = "list"
    /\ ~last.threw
    /\ last.req = SearchFilters(Some(<<<<"A">>, <<"B">>>>), Some(<<"b">>),
                                Some(<<"a">>), None, None)
    /\ Len(prompts) = 3
    /\ last.out.total = 1
    /\ Len(last.out.items) = 1
    /\ last.out.items[1].id = "k1"


\* the usage count a record is sorted by
SortUsage(r) == IF IsSome(r.metadata.usage) THEN Val(r.metadata.usage) ELSE 0

\* C11: of two consecutive items of a listPrompts result the first has the
\* higher usage, or the same usage and an updatedAt that is not earlier.
C11_ListOrder ==
    (last.op = "list" /\ ~last.threw) =>
        \A n \in 1..(Len(last.out.items) - 1) :
            LET a == last.out.items[n]
                b == last.out.items[n + 1]
            IN \/ SortUsage(a) > SortUsage(b)
               \/ /\ SortUsage(a) = SortUsage(b)
                  /\ a.metadata.updatedAt >= b.metadata.updatedAt

\* three records, two of equal usage stored in the order of their updates:
\* the later update comes first, the record without usage last
C11_Witness ==
    /\ last.op = "list"
    /\ ~last.threw
    /\ Len(last.out.items) = 3
    /\ last.out.items[1].id = "k3"
    /\ last.out.items[2].id = "k1"
    /\ last.out.items[3].id = "k2"
    /\ prompts[1].value.id = "k1"

\* the filters without the page
Unpaged(f) == [f EXCEPT !.limit = None, !.offset = None]

\* the elements of S at the 0-based positions offset .. offset+limit-1
SliceOf(S, offset, limit) ==
    LET to == IF offset + limit < Len(S) THEN offset + limit ELSE Len(S)
    IN [n \in 1..(IF to > offset THEN to - offset ELSE 0) |-> S[offset + n]]

\* what a page must be, S being the filtered and sorted sequence
PageOf(page, S, f) ==
    LET limit == IF IsSome(f.limit) THEN Val(f.limit) ELSE 50
        offset == IF IsSome(f.offset) THEN Val(f.offset) ELSE 0
    IN /\ page.total = Len(S)
       /\ page.limit = limit
       /\ page.offset = offset
       /\ page.items = SliceOf(S, offset, limit)

\* C12: the page listPrompts and searchPrompts return has total the length of
\* the filtered and sorted sequence S, limit and offset as supplied (50 and 0
\* only when absent), and items the slice S[offset, offset+limit).
C12_Pagination ==
    /\ (last.op = "list" /\ ~last.threw) =>
          PageOf(last.out, listPrompts(prompts, Unpaged(last.req)).items, last.req)
    /\ (last.op = "search" /\ ~last.threw) =>
          PageOf(last.out,
                 searchPrompts(prompts, last.req.query, Unpaged(last.req.filters)).items,
                 last.req.filters)

\* the score of record r for query q
Score(r, q) ==
    (IF ContainsCI(r.title, q) THEN 10 ELSE 0)
    + (IF \E t \in Range(r.tags) : ContainsCI(t, q) THEN 5 ELSE 0)
    + (IF ContainsCI(r.category, q) THEN 3 ELSE 0)
    + (IF IsSome(r.description) /\ ContainsCI(Val(r.description), q) THEN 2 ELSE 0)
    + (IF ContainsCI(r.content, q) THEN 1 ELSE 0)

\* record r is a result of the search for q under filters f
Found(r, q, f) ==
    /\ \/ ContainsCI(r.title, q)
       \/ IsSome(r.description) /\ ContainsCI(Val(r.description), q)
       \/ ContainsCI(r.content, q)
       \/ \E t \in Range(r.tags) : ContainsCI(t, q)
       \/ ContainsCI(r.category, q)
    /\ Retained(r, [f EXCEPT !.title = None])

LexLess(a, b) ==
    \E k \in 1..(Len(b)) :
        /\ \A j \in 1..(k - 1) : j <= Len(a) /\ a[j] = b[j]
        /\ \/ k = Len(a) + 1
           \/ k <= Len(a) /\ CharCodes[a[k]] < CharCodes[b[k]]

\* out holds each value of the set once, in ascending order
SortedSetOf(out, values) ==
    /\ Range(out) = values
    /\ Len(out) = Cardinality(values)
    /\ \A n \in 1..(Len(out) - 1) : LexLess(out[n], out[n + 1])

AllCategories == { prompts[i].value.category : i \in 1..Len(prompts) }

AllTags == UNION { Range(prompts[i].value.tags) : i \in 1..Len(prompts) }

\* C14: getCategories returns each category of the current records once and
\* getTags each of their tags once, both in ascending lexicographic order and
\* with no other value.
C14_CategoriesAndTags ==
    /\ (last.op = "categories" /\ ~last.threw) => SortedSetOf(last.out, AllCategories)
    /\ (last.op = "tags" /\ ~last.threw) => SortedSetOf(last.out, AllTags)

\* the tags of six records, some shared, upper case before lower case
C14_Witness ==
    /\ last.op = "tags"
    /\ ~last.threw
    /\ Len(prompts) = 6
    /\ last.out = <<<<"A">>, <<"B">>, <<"a">>, <<"a", "b">>, <<"c">>>>

\* the categories of three records that are stored in another order
C14_WitnessCategories ==
    /\ last.op = "categories"
    /\ ~last.threw
    /\ Len(prompts) = 3
    /\ prompts[1].value.category = <<"c", "B">>
    /\ last.out = <<<<"C", "b">>, <<"a">>, <<"c", "B">>>>

\* C15: getStats counts the records, the distinct categories and the distinct
\* tags; mostUsedPrompts has min(5, number of records) elements, the {id,
\* title, usage} of distinct records in descending order of usage, and no
\* record left out has a usage above that of one included; the call changes
\* neither the mapping nor the data file of an initialized service.
C15_Stats ==
    [][(last'.op = "stats" /\ ~last'.threw) =>
          LET stats == last'.out
              most == stats.mostUsedPrompts
              n == Len(prompts')
          IN /\ stats.totalPrompts = n
             /\ stats.totalCategories =
                   Cardinality({ prompts'[i].value.category : i \in 1..n })
             /\ stats.totalTags =
                   Cardinality(UNION { Range(prompts'[i].value.tags) : i \in 1..n })
             /\ Len(most) = IF n < 5 THEN n ELSE 5
             /\ \A k \in 1..(Len(most) - 1) : most[k].usage >= most[k + 1].usage
             /\ \E chosen \in SUBSET (1..n) :
                   /\ Cardinality(chosen) = Len(most)
                   /\ \A i \in chosen : \E k \in 1..Len(most) :
                         /\ most[k].id = prompts'[i].value.id
                         /\ most[k].title = prompts'[i].value.title
                         /\ most[k].usage = SortUsage(prompts'[i].value)
                   /\ \A i \in chosen, j \in (1..n) \ chosen :
                         SortUsage(prompts'[i].value) >= SortUsage(prompts'[j].value)
             /\ prompts' = Hydrated.result
             /\ dataFile' = Hydrated.file
             /\ initialized => (prompts' = prompts /\ dataFile' = dataFile)
      ]_vars

\* six records: the one without usage is left out
C15_Witness ==
    /\ last.op = "stats"
    /\ ~last.threw
    /\ last.out.totalPrompts = 6
    /\ last.out.totalCategories = 5
    /\ last.out.totalTags = 5
    /\ Len(last.out.mostUsedPrompts) = 5
    /\ last.out.mostUsedPrompts[1] = [id |-> "k5", title |-> <<"c">>, usage |-> 7]
    /\ last.out.mostUsedPrompts[5].id = "k3"
    /\ last.out.mostUsedPrompts[5].usage = 1

WellFormed(value) ==
    /\ value.isObject
    /\ \A f \in {"id", "title", "content", "category"} : value.types[f] = "string"
    /\ value.types.tags = "array"
    /\ value.types.metadata \notin {"undefined", "null", "number", "string", "boolean"}

\* C17: load of a document that parses returns, under its key, every entry
\* whose value has a string id, title, content and category, an array tags
\* and a metadata that is an object and not null, and no other entry; it does
\* not fail and does not change the file.
C17_LoadValidates ==
    [][(last'.op = "load" /\ dataFile.exists /\ dataFile.parses) =>
          LET entries == dataFile.entries
              kept == { i \in 1..Len(entries) : WellFormed(entries[i].value) }
              result == last'.out
          IN /\ ~last'.threw
             /\ Len(result) = Cardinality(kept)
             /\ \A i \in kept :
                   /\ Has(result, entries[i].key)
                   /\ Lookup(result, entries[i].key) = entries[i].value.data
             /\ \A i, j \in kept :
                   i < j => IndexOf(result, entries[i].key) < IndexOf(result, entries[j].key)
             /\ dataFile' = dataFile
      ]_vars

\* a value whose metadata is null between two well-formed records: the two
\* are returned
C17_Witness ==
    /\ last.op = "load"
    /\ ~last.threw
    /\ dataFile = MixedFile(YamlValue(TRUE, [GoodTypes EXCEPT !.metadata = "null"], StoredB))
    /\ last.out = <<Entry("k1", StoredA), Entry("k3", StoredC)>>

\* C18: while the data file cannot be parsed every operation of the service
\* fails with the Error of load, whose message begins with "Failed to load
\* prompts"; the data file, the backups and the service are left as they were.
C18_CorruptFile ==
    [][(dataFile.exists /\ ~dataFile.parses) =>
          /\ last'.threw
          /\ last'.out.name = "Error"
          /\ last'.out.message[1] = "Failed to load prompts: "
          /\ dataFile' = dataFile
          /\ backups' = backups
          /\ prompts' = prompts
          /\ initialized' = FALSE
      ]_vars

\* a second operation on the same file fails as the first did
C18_Witness ==
    /\ last.op = "get"
    /\ last.threw
    /\ last.out = LoadError("YAMLParseError")
    /\ steps = 2
    /\ dataFile = CorruptFile
    /\ ~initialized

\* C19: load without a data file returns the empty mapping, leaves a data
\* file that holds the empty mapping, and adds no backup.
C19_LoadCreatesFile ==
    [][(last'.op = "load" /\ ~dataFile.exists) =>
          /\ ~last'.threw
          /\ last'.out = <<>>
          /\ dataFile'.exists
          /\ dataFile'.parses
          /\ dataFile'.root = "map"
          /\ dataFile'.entries = <<>>
          /\ backups' = backups
      ]_vars

\* the first load of a store that has backups of earlier runs and no data file
C19_Witness ==
    /\ last.op = "load"
    /\ ~last.threw
    /\ steps = 1
    /\ last.out = <<>>
    /\ dataFile = Document(TRUE, "map", <<>>)
    /\ backups = TenBackups

\* C20: after a successful save over an existing data file the backup
\* directory holds a file, named by the time of the backup, whose content is
\* what the data file held before the save; a save that finds no data file
\* leaves the backup directory as it was.
C20_BackupBeforeWrite ==
    [][(last'.op = "save" /\ ~last'.threw) =>
          /\ dataFile'.exists
          /\ IF dataFile.exists
             THEN \E b \in backups' : b.name = last'.now /\ b.content = dataFile
             ELSE backups' = backups
      ]_vars

\* a save over a file of two records, with ten backups there already: the
\* new backup holds the two records, the oldest backup is gone
C20_Witness ==
    /\ last.op = "save"
    /\ ~last.threw
    /\ steps = 1
    /\ dataFile # FileB
    /\ BackupFile(last.now, FileB) \in backups
    /\ Cardinality(backups) = 10
    /\ \A b \in backups : b.name > -9

\* C21: after a backup() that copied the data file and whose pruning met no
\* error (a backup of its own or the one save() makes), the backup directory
\* holds at most ten files named prompts-backup-*.yaml, and they are the ten
\* of the greatest names among the files of that name that were there once
\* the copy was made; every file of another name is still there.
C21_Pruning ==
    [][(/\ last'.op \in {"backup", "save"}
        /\ dataFile.exists
        /\ ~last'.threw
        /\ ~cleanupWarns(copyFile(dataFile, backups, last'.now), last'.pre)) =>
          LET named == { b \in backups : b.matches /\ b.name # last'.now }
                          \cup {BackupFile(last'.now, dataFile)}
              kept == { b \in backups' : b.matches }
          IN /\ Cardinality(kept) <= 10
             /\ kept \subseteq named
             /\ \A b \in named :
                   b \in kept <=> Cardinality({ c \in named : c.name > b.name }) < 10
             /\ { b \in backups' : ~b.matches } = { b \in backups : ~b.matches }
      ]_vars

\* a backup into a directory of twelve backups and a file of another name:
\* the new copy and the nine latest of the old are left, and the other file
C21_Witness ==
    /\ last.op = "backup"
    /\ ~last.threw
    /\ steps = 1
    /\ OtherFile(0 - 20, FileA) \in backups
    /\ Cardinality(backups) = 11
    /\ BackupFile(last.now, dataFile) \in backups
    /\ BackupFile(0 - 8, FileA) \in backups
    /\ BackupFile(0 - 9, FileA) \notin backups

\* what the data file holds before the k-th save of a run of saves
TurnFile(k) == IF k = 1 THEN FileA ELSE YAMLstringify(TurnMapping(k - 1))

\* C22: after twelve successful save() calls in a row over an existing data
\* file, the backup directory having been empty, exactly ten backup files are
\* left, and they hold what the data file held before each of the ten latest
\* of those saves.
C22_TwelveSaves ==
    (last.op = "save" /\ steps = SaveRuns) =>
        /\ Cardinality(backups) = 10
        /\ { b.content : b \in backups }
              = { TurnFile(k) : k \in (SaveRuns - 9)..SaveRuns }

\* the statement of C22 for saves whose backups all read different
\* milliseconds
C22_DistinctStamps ==
    (last.op = "save" /\ steps = SaveRuns /\ clock = SaveRuns + 1) =>
        /\ Cardinality(backups) = 10
        /\ { b.content : b \in backups }
              = { TurnFile(k) : k \in (SaveRuns - 9)..SaveRuns }

\* C23: backup() called when there is no data file completes without error,
\* adds no file to the backup directory and removes none, and leaves the data
\* file absent.
C23_BackupNoFile ==
    [][(last'.op = "backup" /\ ~dataFile.exists) =>
          /\ ~last'.threw
          /\ backups' = backups
          /\ dataFile' = dataFile
      ]_vars

\* a backup without a data file in a directory of more than ten backups
C23_Witness ==
    /\ last.op = "backup"
    /\ ~last.found
    /\ ~last.threw
    /\ ~dataFile.exists
    /\ backups = CrowdedBackups

\* C24: when the listing of the backup directory or the removal of an old
\* backup fails while every other step succeeds, backup() and the save()
\* around it complete without error: the new copy of the data file is in the
\* backup directory, and save() has written the new mapping to the data file.
C24_PruningFailure ==
    [][(/\ last'.op \in {"backup", "save"}
        /\ dataFile.exists
        /\ ~last'.pre.copy
        /\ last'.pre.write = "none"
        /\ cleanupWarns(copyFile(dataFile, backups, last'.now), last'.pre)) =>
          /\ ~last'.threw
          /\ BackupFile(last'.now, dataFile) \in backups'
          /\ IF last'.op = "save"
             THEN FileHolds(dataFile', last'.req)
             ELSE dataFile' = dataFile
      ]_vars

\* a save whose pruning removed one of three old backups before the second
\* unlink threw: the two that were not removed are still there, the new copy
\* is there, the data file holds the new mapping
C24_Witness ==
    /\ last.op = "save"
    /\ ~last.threw
    /\ last.pre = Fault(FALSE, 2, FALSE, "none")
    /\ last.req = <<Entry("k1", StoredB), Entry("k2", StoredC)>>
    /\ FileHolds(dataFile, last.req)
    /\ BackupFile(last.now, FileA) \in backups
    /\ BackupFile(0 - 9, FileA) \notin backups
    /\ BackupFile(0 - 10, FileB) \in backups
    /\ BackupFile(0 - 11, FileB) \in backups
    /\ Cardinality(backups) = 13

\* the public operations of the service that change records, and initialize
ServiceOps == {"initialize", "create", "get", "update", "delete"}

\* C25 as stated: once an operation or initialize() has been called,
\* storage.load() has been invoked exactly once, whatever was called since.
C25_LoadExactlyOnce == steps >= 1 => calls.load = 1

\* C25: calls made one after the other.  An operation or initialize() that
\* starts while the service is not hydrated invokes storage.load() once; the
\* service is hydrated from then on if that load succeeded, and stays
\* unhydrated if it threw, so that the next call loads again.  An operation
\* or initialize() that starts on a hydrated service invokes no load and
\* works on the in-memory mapping, whatever the data file holds by then.
C25_LoadOncePerHydration ==
    [][last'.op \in ServiceOps =>
          /\ calls'.load = calls.load + (IF initialized THEN 0 ELSE 1)
          /\ initialized' = (initialized \/ ~last'.threw)
          /\ initialized =>
                /\ ~last'.threw
                /\ last'.pre = IF Has(prompts, last'.id)
                               THEN Lookup(prompts, last'.id) ELSE NoPrompt
                /\ last'.op \in {"get", "update", "delete"} =>
                      last'.found = Has(prompts, last'.id)
                /\ last'.op = "initialize" =>
                      /\ prompts' = prompts
                      /\ dataFile' = dataFile
      ]_vars

\* the service was hydrated from a file of one record, another process then
\* wrote a file of two records, and a get of the second record finds nothing
C25_Witness ==
    /\ last.op = "get"
    /\ last.id = "k2"
    /\ ~last.found
    /\ ~last.threw
    /\ initialized
    /\ calls.load = 1
    /\ steps >= 2
    /\ dataFile = FileB
    /\ Keys(prompts) = {"k1"}

\* every handler that was started has returned
Quiescent == \A t \in TaskIds : tasks[t].pc \in {"idle", "done"}

\* the keys of the mapping the data file holds
FileKeys(file) == { file.entries[i].key : i \in 1..Len(file.entries) }

\* C26: every operation that starts while the service is not hydrated
\* invokes storage.load(); when a load has returned, its result replaces the
\* in-memory mapping, whatever that held, so that the mapping is then the
\* result of the load with the change of the operation that awaited it.  (By
\* this a record written by the operation whose hydration ended first can be
\* missing afterwards: C26_Witness.)
C26_HydrationRace ==
    [][\A t \in TaskIds :
          /\ (tasks[t].pc = "idle" /\ tasks'[t].pc # "idle" /\ ~initialized) =>
                /\ tasks'[t].pc = "load"
                /\ calls'.load = calls.load + 1
          /\ (tasks[t].pc = "loaded" /\ tasks'[t].pc # "loaded") =>
                LET snap == tasks[t].snap
                    id == tasks'[t].id
                IN /\ initialized'
                   /\ Keys(prompts') \subseteq Keys(snap) \cup {id}
                   /\ \A k \in Keys(snap) \ {id} :
                         Has(prompts', k) /\ Lookup(prompts', k) = Lookup(snap, k)
      ]_vars

\* two operations started on a new service: createPrompt and getPrompt each
\* loaded, both returned without error, and the record createPrompt returned
\* is neither in the in-memory mapping nor in the data file
C26_Witness ==
    /\ Quiescent
    /\ calls.load = 2
    /\ tasks["A"].op = "create"
    /\ tasks["B"].op = "get"
    /\ ~tasks["A"].threw
    /\ ~tasks["B"].threw
    /\ tasks["B"].found
    /\ tasks["A"].out.id = "u1"
    /\ ~Has(prompts, "u1")
    /\ "u1" \notin FileKeys(dataFile)
    /\ FileHolds(dataFile, prompts)

\* the change the returned call of a task made is in mapping m
InEffect(task, m) ==
    CASE task.op = "delete" -> ~Has(m, task.id)
      [] OTHER -> Has(m, task.id) /\ Lookup(m, task.id) = task.out

\* C27: on a service that is hydrated once, a save serialises the in-memory
\* mapping as it is when the backup is done, not as it was when the save was
\* called, and the write of a save that completes replaces the whole data
\* file.  When two operations that changed different records have both
\* returned, the in-memory mapping has both changes and the data file holds
\* what one of the two saves serialised.  (The save that serialised first can
\* be the one whose write completes last; the data file then lacks the other
\* operation's change: C27_Witness.)
C27_LastWriteWins ==
    [][calls'.load <= 1 =>
          /\ \A t \in TaskIds :
                /\ (tasks[t].pc = "stringify" /\ tasks'[t].pc = "write") =>
                      tasks'[t].text = YAMLstringify(prompts)
                /\ (tasks[t].pc = "write" /\ tasks'[t].pc = "done") =>
                      /\ dataFile' = tasks[t].text
                      /\ ~tasks'[t].threw
                      /\ prompts' = prompts
          /\ (/\ \A t \in TaskIds : tasks'[t].pc = "done" /\ tasks'[t].found
              /\ tasks'["A"].id # tasks'["B"].id) =>
                /\ \A t \in TaskIds : InEffect(tasks'[t], prompts')
                /\ \E t \in TaskIds : dataFile' = tasks'[t].text
      ]_vars

\* updatePrompt of one record and getPrompt of another on a hydrated
\* service: both returned their records, the in-memory mapping has the new
\* title and the new usage, the data file has the new title and the old usage
C27_Witness ==
    /\ Quiescent
    /\ calls.load = 1
    /\ tasks["A"].op = "update" /\ tasks["A"].id = "k1"
    /\ tasks["B"].op = "get" /\ tasks["B"].id = "k2"
    /\ ~tasks["A"].threw /\ tasks["A"].found
    /\ ~tasks["B"].threw /\ tasks["B"].found
    /\ Lookup(prompts, "k1").title = <<"n">>
    /\ Lookup(prompts, "k2").metadata.usage = Some(1)
    /\ Persisted(dataFile, "k1").title = <<"n">>
    /\ Persisted(dataFile, "k2") = StoredB
    /\ ~FileHolds(dataFile, prompts)

\* the Error is one that storage.save threw
IsSaveError(e) == e.name = "Error" /\ e.message[1] = "Failed to save prompts: "

\* the change of the last call is in the in-memory mapping
Mutated(call, before, after) ==
    CASE call.op = "create" ->
            /\ Has(after, call.id)
            /\ ~Has(before, call.id)
            /\ Lookup(after, call.id).title = CreateRequests[call.req].title
      [] call.op = "get" ->
            /\ Has(after, call.id)
            /\ Lookup(after, call.id).metadata.usage = Some(UsageOf(call.pre) + 1)
      [] call.op = "update" ->
            /\ Has(after, call.id)
            /\ Lookup(after, call.id).metadata.version
                  = incrementVersion(call.pre.metadata.version)
      [] call.op = "delete" -> Has(before, call.id) /\ ~Has(after, call.id)

\* C28 without the data file: when storage.save throws in createPrompt,
\* getPrompt, updatePrompt or deletePrompt, the operation throws that Error,
\* storage.save was called once, and the in-memory mapping has the change of
\* the operation.
C28_FailedSaveInMemory ==
    [][(last'.op \in {"create", "get", "update", "delete"} /\ last'.threw
        /\ IsSaveError(last'.out)) =>
          /\ calls'.save = calls.save + 1
          /\ initialized'
          /\ Mutated(last', Hydrated.result, prompts')
      ]_vars

\* C28: when storage.save throws in createPrompt, getPrompt, updatePrompt or
\* deletePrompt, the operation throws that Error, storage.save was called
\* once, the data file holds what it held before that call of save, which is
\* what the last successful save wrote, and the in-memory mapping has the
\* change of the operation.
C28_SaveFailure ==
    [][(last'.op \in {"create", "get", "update", "delete"} /\ last'.threw
        /\ IsSaveError(last'.out)) =>
          /\ calls'.save = calls.save + 1
          /\ initialized'
          /\ Mutated(last', Hydrated.result, prompts')
          /\ dataFile' = Hydrated.file
      ]_vars

\* a getPrompt whose save could not copy the data file: the usage is counted
\* in memory and not in the file
C28_Reached ==
    /\ last.op = "get"
    /\ last.threw
    /\ last.out = SaveError(BackupError(<<"copyFile">>).message)
    /\ calls.save = 1
    /\ Lookup(prompts, "k1").metadata.usage = Some(6)
    /\ dataFile = YAMLstringify(AsyncMapping)

ReadOnlyOps == {"list", "search", "categories", "tags", "stats"}

\* C29: a call changes the usage of a record of the mapping only if it is a
\* getPrompt of that record which found it: after createPrompt, updatePrompt,
\* deletePrompt or getPrompt of another record, listPrompts, searchPrompts,
\* getCategories, getTags and getStats every record that is still in the
\* mapping has the usage it had; listPrompts, searchPrompts, getCategories,
\* getTags and getStats leave the mapping as it was and do not call
\* storage.save.
C29_UsageFrame ==
    [][/\ \A k \in Keys(Hydrated.result) :
             (Has(prompts', k) /\ ~(last'.op = "get" /\ last'.id = k /\ last'.found)) =>
                 Lookup(prompts', k).metadata.usage
                     = Lookup(Hydrated.result, k).metadata.usage
       /\ last'.op \in ReadOnlyOps =>
             /\ calls'.save = calls.save
             /\ prompts' = Hydrated.result
             /\ dataFile' = Hydrated.file
             /\ backups' = Hydrated.backups
       /\ last'.op \in {"create", "update", "delete"} /\ last'.found =>
             calls'.save = calls.save + 1
      ]_vars

\* a record was fetched once and then updated, and the statistics were asked
\* for: the record has usage 1 and its second version, two saves were made
C29_Witness ==
    /\ last.op = "stats"
    /\ steps = 3
    /\ calls.save = 2
    /\ Keys(prompts) = {"k1", "k2"}
    /\ Lookup(prompts, "k1").metadata.usage = Some(1)
    /\ Lookup(prompts, "k1").metadata.version = <<"2", ".", "3", ".", "1", "0">>
    /\ Lookup(prompts, "k2").metadata.usage = Some(0)
    /\ last.out.mostUsedPrompts[1].usage = 1


(***************************************************************************)
(* Requests the validation middleware turns away.                          *)
(***************************************************************************)
\* the hexadecimal digits of a text, with the separators and brackets a
\* UUID can be written with left out
RECURSIVE Unpunctuated(_)
Unpunctuated(s) ==
    IF s = <<>> THEN <<>>
    ELSE IF Head(s) \in {"-", ":", "{", "}", "[", "]", "(", ")"} THEN Unpunctuated(Tail(s))
    ELSE <<Head(s)>> \o Unpunctuated(Tail(s))

\* a text that is a UUID in no notation: its digits are not 32 hexadecimal
\* ones
NotUuid(s) ==
    LET digits == Unpunctuated(s)
    IN Len(digits) # 32 \/ ~(Range(digits) \subseteq HexChars)

MissingRequired(body) ==
    \E f \in {"title", "content", "tags", "category"} : ~IsSome(body[f])

TooLong(o, max) == IsSome(o) /\ Len(Val(o)) > max

ExceedsBounds(body) ==
    \/ TooLong(body.title, 200)
    \/ TooLong(body.content, 50000)
    \/ TooLong(body.description, 1000)
    \/ TooLong(body.tags, 20)
    \/ IsSome(body.tags) /\ \E i \in 1..Len(Val(body.tags)) : Len(Val(body.tags)[i]) > 50
    \/ TooLong(body.category, 100)
    \/ TooLong(body.variables, 20)
    \/ TooLong(body.author, 100)

NoFields(body) == \A f \in DOMAIN body : ~IsSome(body[f])

\* a limit or an offset that is not a string of digits
NonNumeric(o) == IsSome(o) /\ \E i \in 1..Len(Val(o)) : ~IsDigit(Val(o)[i])

\* the request recorded in call fails validation in one of the ways named
FailsValidation(call) ==
    \/ /\ call.op \in {"GET /:id", "PUT /:id", "DELETE /:id"}
       /\ NotUuid(Written[call.id])
    \/ /\ call.op = "POST /"
       /\ MissingRequired(CreateBodies[call.req]) \/ ExceedsBounds(CreateBodies[call.req])
    \/ /\ call.op = "PUT /:id"
       /\ NoFields(UpdateBodies[call.req])
    \/ /\ call.op \in {"GET /", "GET /search"}
       /\ NonNumeric(call.req.limit) \/ NonNumeric(call.req.offset)

\* C30: a request that fails validation (an id that is not a UUID on GET,
\* PUT or DELETE /:id, a create body that lacks a required property or
\* exceeds a length bound, an update body with no property, a limit or an
\* offset that is not a number) is answered with status 400 and the error
\* 'Validation error', and no operation of PromptService is invoked: the
\* mapping with its usage counters, the data file, the backups and the
\* counts of service and storage calls are what they were.
C30_ValidationRejects ==
    [][FailsValidation(last') =>
           /\ last'.out = ValidationError
           /\ UNCHANGED <<prompts, initialized, dataFile, backups, clock, uuidCount,
                          steps, calls>>]_vars

\* a client asked for the record stored under a key that is not a UUID,
\* after a prompt was created, and was turned away
C30_Witness ==
    /\ last.op = "GET /:id"
    /\ last.id = "k2"
    /\ last.out = ValidationError
    /\ Has(prompts, "k2")
    /\ uuidCount = 1
    /\ calls.save = 1


(***************************************************************************)
(* The page size of GET /.                                                 *)
(***************************************************************************)
\* the page size the API documents
MaxPageSize == 100

\* C31: for every request of GET / that passes validation, the limit passed
\* to listPrompts is at most 100 and the response holds at most 100 items.
C31_PageSize ==
    (last.op = "GET /" /\ last.out # ValidationError) =>
        LET filters == listFilters(listPromptsQuerySchema(splitTags(last.req)).value)
        IN /\ IsSome(filters.limit) => Val(filters.limit) <= MaxPageSize
           /\ last.out.limit <= MaxPageSize
           /\ Len(last.out.items) <= MaxPageSize


(***************************************************************************)
(* The usage counter over a record's lifetime.                             *)
(***************************************************************************)
\* C32: in-memory metadata.usage never goes down: no step, in any sequence
\* or interleaving of the public operations from hydration on, lowers the
\* usage of a record that remains in the mapping.
C32_UsageMonotone ==
    [][\A k \in Keys(prompts) \cap Keys(prompts') :
           UsageOf(Lookup(prompts', k)) >= UsageOf(Lookup(prompts, k))]_vars


(***************************************************************************)
(* What getPrompt leaves alone.                                            *)
(***************************************************************************)
\* record a with the usage of record b
WithUsageOf(a, b) == [a EXCEPT !.metadata.usage = b.metadata.usage]

\* C33: a getPrompt that finds its record changes nothing but that record's
\* metadata.usage: its other properties (title, content, description, tags,
\* category, variables, version, updatedAt, createdAt) are what they were,
\* every other record is what it was, and the mapping has the same ids in
\* the same order.  The mapping before is the one the call works on, after
\* hydration when the call is the first.
C33_GetFrame ==
    [][(last'.op = "get" /\ last'.found /\ ~last'.threw) =>
           LET before == Hydrated.result
           IN /\ Len(prompts') = Len(before)
              /\ \A i \in 1..Len(before) : prompts'[i].key = before[i].key
              /\ \A k \in Keys(before) :
                     IF k = last'.id
                     THEN /\ Lookup(prompts', k) =
                                 WithUsageOf(Lookup(before, k), Lookup(prompts', k))
                          /\ Lookup(prompts', k) # Lookup(before, k)
                     ELSE Lookup(prompts', k) = Lookup(before, k)]_vars

\* a getPrompt of one of the two records of the file, after a prompt was
\* created and read
C33_Witness ==
    /\ last.op = "get"
    /\ last.found
    /\ ~last.threw
    /\ last.id = "k2"
    /\ Len(prompts) = 3
    /\ steps = 3
    /\ Lookup(prompts, "u1").metadata.usage = Some(1)


(***************************************************************************)
(* Calls with an id the mapping does not hold.                             *)
(***************************************************************************)
\* C34: on an initialized service, getPrompt, updatePrompt and deletePrompt
\* called with an id that is no key of the mapping raise no error, return
\* null, null and false, leave the mapping as it was and do not call
\* storage.save: the data file is not rewritten and no backup is made.
C34_AbsentId ==
    [][(last'.op \in {"get", "update", "delete"} /\ initialized
        /\ ~Has(prompts, last'.id)) =>
           /\ ~last'.threw
           /\ ~last'.found
           /\ last'.out = NoPrompt
           /\ prompts' = prompts
           /\ calls'.save = calls.save
           /\ dataFile' = dataFile
           /\ backups' = backups]_vars

\* the same for the ids that are not a name of Object.prototype
C34_AbsentOwnId ==
    [][(last'.op \in {"get", "update", "delete"} /\ initialized
        /\ ~Has(prompts, last'.id) /\ last'.id \notin InheritedNames) =>
           /\ ~last'.threw
           /\ ~last'.found
           /\ last'.out = NoPrompt
           /\ prompts' = prompts
           /\ calls'.save = calls.save
           /\ dataFile' = dataFile
           /\ backups' = backups]_vars


(***************************************************************************)
(* The names of the backups.                                               *)
(***************************************************************************)
\* C35: each backup() of an existing data file writes to a file name greater
\* than the name of every earlier backup of the process: no two backups have
\* the same name and none overwrites an earlier one, however little time
\* passes between them.  (The backups of the directory are those of the
\* earlier calls: the run starts with none.)
C35_BackupNames ==
    [][(last'.op \in {"save", "backup"} /\ dataFile.exists) =>
           \A b \in backupFiles(backups) : b.name < last'.now]_vars


(***************************************************************************)
(* The rank of title matches.                                              *)
(***************************************************************************)
\* C36: in the result of searchPrompts every record whose title contains the
\* query, whatever the case of the letters, comes before every record whose
\* title does not.
C36_TitleFirst ==
    (last.op = "search" /\ ~last.threw) =>
        \A i, j \in 1..Len(last.out.items) :
            (/\ ContainsCI(last.out.items[i].title, last.req.query)
             /\ ~ContainsCI(last.out.items[j].title, last.req.query)) => i < j


(***************************************************************************)
(* Keys and ids.                                                           *)
(***************************************************************************)
\* C37: in every state each key of the in-memory mapping holds a record
\* whose id is that key, so getPrompt(r.id) finds r for every record r that
\* listPrompts can return: after hydration from any file load accepts, and
\* after every create, update, get and delete.
C37_KeyIsId ==
    \A i \in 1..Len(prompts) :
        /\ prompts[i].key = prompts[i].value.id
        /\ getPrompt(prompts, prompts[i].value.id).found
        /\ getPrompt(prompts, prompts[i].value.id).ret.title = prompts[i].value.title

\* the same for the records createPrompt made
C37_CreatedKeyIsId ==
    \A i \in 1..Len(prompts) :
        prompts[i].key \in Range(UuidTable) => prompts[i].key = prompts[i].value.id


(***************************************************************************)
(* Handlers on a hydrated service.                                         *)
(***************************************************************************)
\* the handler of the task has looked up and changed this.prompts
HasRun(task) == task.pc \in {"backup", "stringify", "write", "done"} /\ ~task.threw

\* the getPrompt calls that found record k and have run
GetsOf(k) ==
    { t \in TaskIds : HasRun(tasks[t]) /\ tasks[t].op = "get" /\ tasks[t].id = k
                      /\ tasks[t].found }

\* C38: on a service that is hydrated once, a handler looks up and changes
\* the in-memory mapping in one step, so no change is lost when handlers
\* interleave: the usage of a record is its usage at hydration plus the
\* number of getPrompt calls on it that have run, and when two handlers have
\* changed different records, both changes are in the in-memory mapping.
C38_NoLostUpdate ==
    calls.load <= 1 =>
        /\ \A k \in Keys(prompts) \cap Keys(AsyncMapping) :
              UsageOf(Lookup(prompts, k)) =
                  UsageOf(Lookup(AsyncMapping, k)) + Cardinality(GetsOf(k))
        /\ (/\ \A t \in TaskIds :
                  HasRun(tasks[t]) /\ (tasks[t].found \/ tasks[t].op = "create")
            /\ tasks["A"].id # tasks["B"].id) =>
                \A t \in TaskIds : InEffect(tasks[t], prompts)

\* two getPrompt calls on record k1 of a hydrated service have both run and
\* neither has saved yet: the usage is two more than at hydration
C38_Witness ==
    /\ calls.load = 1
    /\ \A t \in TaskIds : tasks[t].pc = "backup"
    /\ GetsOf("k1") = TaskIds
    /\ UsageOf(Lookup(prompts, "k1")) = UsageOf(Lookup(AsyncMapping, "k1")) + 2

\* createPrompt and deletePrompt of another record ran on a hydrated service
\* before either had saved, and both changes are in the in-memory mapping
C38_WitnessDistinct ==
    /\ calls.load = 1
    /\ tasks["A"].op = "create" /\ tasks["A"].pc = "backup"
    /\ tasks["B"].op = "delete" /\ tasks["B"].pc = "backup" /\ tasks["B"].found
    /\ Has(prompts, tasks["A"].id)
    /\ ~Has(prompts, "k1")


(***************************************************************************)
(* load() and the data file.                                               *)
(***************************************************************************)
\* the data file holds records
HoldsRecords(file) == file.exists /\ Len(file.entries) > 0

\* C39: load() writes the data file only to create it: whatever calls of
\* load() and save() run at the same time on the directory, the write of a
\* load() never replaces a data file that holds records.
C39_LoadCreatesOnly ==
    [][\A t \in TaskIds :
          (tasks[t].op = "load" /\ tasks[t].pc = "write" /\ tasks'[t].pc = "done") =>
              ~HoldsRecords(dataFile)]_vars

\* the same when no save() runs beside the load() calls: the file a load()
\* replaces is then at most the empty one another load() wrote
C39_LoadsOnly ==
    [][(\A u \in TaskIds : tasks[u].op # "save") =>
          \A t \in TaskIds :
              (tasks[t].op = "load" /\ tasks[t].pc = "write" /\ tasks'[t].pc = "done") =>
                  ~HoldsRecords(dataFile)]_vars


(***************************************************************************)
(* save() when the backup fails.                                           *)
(***************************************************************************)
\* C40: when fs.copyFile fails in the backup of a save() over an existing
\* data file, save() throws an Error "Failed to save prompts: Failed to
\* create backup: ...", the data file holds what it held before and the
\* backup directory is as it was: the new mapping is not written.
C40_FailedBackupNoWrite ==
    [][(last'.op = "save" /\ dataFile.exists /\ last'.pre.copy) =>
          /\ last'.threw
          /\ last'.out = SaveError(BackupError(<<"copyFile">>).message)
          /\ dataFile' = dataFile
          /\ backups' = backups
      ]_vars

\* a save of another mapping over the file of two records, the copy failed:
\* save() threw and the file still holds the two records
C40_Witness ==
    /\ last.op = "save"
    /\ last.pre.copy
    /\ last.threw
    /\ steps = 1
    /\ dataFile = FileB
    /\ YAMLstringify(last.req) # FileB

=============================================================================
